---- MODULE Spec2Model ----
(***************************************************************************)
(* Model of vgo-kit: the sliding-window rate limiters (package ratelimit), *)
(* the gRPC client manager, the gRPC server wrapper and the gRPC manager   *)
(* (package grpc).                                                         *)
(*                                                                         *)
(* Time is a natural number of seconds: it is what time.Now().Unix()       *)
(* returns in the Redis limiter and it stands for time.Now() in the memory *)
(* limiter.  A window is a whole number of seconds.                        *)
(***************************************************************************)
EXTENDS Integers, Sequences, FiniteSets, TLC

VARIABLES
    kind,       \* RateLimitConfig.Type: the limiter NewRateLimiter has made
    clock,      \* the wall clock, in seconds
    limit,      \* RedisRateLimiter.limit / MemoryRateLimiter.limit
    window,     \* RedisRateLimiter.window / MemoryRateLimiter.window, in seconds
    zset,       \* Redis: key -> sorted set, a set of [m |-> member, s |-> score]
    rexpire,    \* Redis: key -> time at which the key expires (NoTTL: none)
    rpend,      \* Redis: client -> the call it has sent and not yet got an answer for
    racc,       \* Redis: key -> stamp -> events accepted since the key's last
                \* Reset and still inside the window (history)
    mreq,       \* Memory: MemoryRateLimiter.requests, key -> sequence of stamps
    macc,       \* Memory: as racc
    shadow,     \* history: the limiter as it would be had the same calls been
                \* made without the GetRemaining calls: its sorted sets z,
                \* their times to live ttl, its requests m, and the answer
                \* allowed it gave to the AllowN that has returned last
    last,       \* the limiter call that has just returned, with its result
    ncalls,     \* number of limiter calls made so far (bounds the run)
    rlpc,       \* the rate-limit interceptor: "idle", "allow" while Allow has
                \* not returned, "handler" while the handler runs
    rlloc,      \* the rate-limit interceptor: its config and arguments, its
                \* key, what Allow returned, and the calls it has made
    rllast,     \* the rate-limit interceptor call that has just returned
    mpc,        \* Memory, concurrent callers: goroutine -> where it is in its call
    mloc,       \* Memory, concurrent callers: goroutine -> the locals of its call
    mfatal,     \* Memory, concurrent callers: the runtime has stopped the process
    configs,    \* ClientManager.configs: name -> target of the ClientConfig
    connections,\* ClientManager.connections: name -> connection
    conns,      \* the connections created so far: id -> [target, state]
    cpc,        \* goroutine -> where it is in its ClientManager call
    cloc,       \* goroutine -> the locals of its ClientManager call
    clast,      \* the ClientManager call that has just returned, with its result
    msrv,       \* Manager.server: NoServer (nil) or the Server made by InitServer
    nsrv,       \* the Servers made so far
    sstate,     \* the grpc.Server: "none", "new", "serving", "stopping", "stopped"
    registered, \* the services registered with the grpc.Server
    rpcs,       \* the calls the grpc.Server is handling
    startpc,    \* StartServer: "idle", or "serving" while Serve has not returned
    spc,        \* Server.Stop: "idle", or "select" while it waits
    sgo,        \* the goroutine of Server.Stop: "none", "spawned", "graceful",
                \* "close", "exit"
    sdone,      \* the done channel of Server.Stop is closed
    ctx,        \* the ctx of Server.Stop: "background", "live", "done"
    shist,      \* Server.Stop, history: [gs |-> GracefulStop has returned,
                \* first |-> ctx was done before it had]
    slast,      \* the Manager call that has just returned, with its result
    mconfig,    \* Manager.config.Clients: name -> config
    added,      \* history: the names of the Config given to NewManager and those
                \* given to AddClient, since the maps were last made anew
    removed,    \* history: the names given to RemoveClient and not to
                \* AddClient since
    currentLang,  \* translator.currentLang
    translations, \* translator.translations: language -> key -> text
    tlast,        \* the translator call that has just returned, with its result
    grpcRequestsTotal,   \* DefaultMetrics: <<method, status>> -> count
    grpcRequestDuration, \* DefaultMetrics: method -> number of observations
    errorsTotal,         \* DefaultMetrics: <<error_type, error_code>> -> count
    handled,    \* history: how often the handler has been invoked
    ipc,        \* the interceptor: "idle", or "handler" while the handler runs
    iloc,       \* the interceptor: its arguments, and the metrics as it began
    ilast,      \* the interceptor call that has just returned, with its result
    resources,  \* PostgresStore.Close: the names it gives to closeFunc, in order
    dbpc,       \* PostgresStore.Close: "idle", "loop", "return"
    dbres,      \* PostgresStore.Close: the closeFunc call it is in
    dbtry,      \* closeFunc: i
    errs,       \* PostgresStore.Close: errs, by resource name
    attempts,   \* history: resource -> calls of its closer in this Close
    closed,     \* history: the resources whose closer has returned nil
    dblast,     \* the PostgresStore.Close that has returned last
    osEnv,      \* the environment of the process: name -> value
    configFile, \* what is at configPath: NoFile, or the values of a YAML file
    loaded,     \* the *viper.Viper LoadConfig returned: the values it read from
                \* the file, or NoViper
    cfglast,    \* the config call that has just returned, with its result
    writable,   \* the working directory lets directories be made
    logDirs,    \* the directories that exist
    sentryHub,  \* sentry.Init has been called and has succeeded
    llast,      \* the InitLogger that has just returned, with its result
    interceptors, \* NewServer: unaryInterceptors and streamInterceptors, the
                  \* chain given to the grpc.Server, outermost first
    chcall,     \* the call going through the chain: the interceptor it is in,
                \* the way it goes, what is being returned
    chlast      \* the call through the chain that has just ended

rlVars == <<kind, clock, limit, window>>
redisVars == <<zset, rexpire, rpend, racc>>
memVars == <<mreq, macc>>
concVars == <<mpc, mloc, mfatal>>
rliVars == <<rlpc, rlloc, rllast>>
limiterVars == <<rlVars, redisVars, memVars, shadow, last, ncalls, concVars,
                 rliVars>>
clientVars == <<configs, connections, conns, cpc, cloc, clast>>
serverVars == <<msrv, nsrv, sstate, registered, rpcs, startpc, spc, sgo, sdone,
                ctx, shist, slast>>
managerVars == <<mconfig, added, removed>>
grpcVars == <<clientVars, serverVars, managerVars>>
i18nVars == <<currentLang, translations, tlast>>

\* The packages beside ratelimit and grpc
metricsVars == <<grpcRequestsTotal, grpcRequestDuration, errorsTotal, handled,
                 ipc, iloc, ilast>>
dbVars == <<resources, dbpc, dbres, dbtry, errs, attempts, closed, dblast>>
configVars == <<osEnv, configFile, loaded, cfglast>>
sentryVars == <<writable, logDirs, sentryHub, llast>>
chainVars == <<interceptors, chcall, chlast>>
kitVars == <<i18nVars, metricsVars, dbVars, configVars, sentryVars, chainVars>>
outsideClient == <<limiterVars, serverVars, managerVars, kitVars>>
outsideServer == <<limiterVars, clientVars, managerVars, kitVars>>
outsideManager == <<limiterVars, kitVars>>
outsideMemory == <<grpcVars, kitVars>>
outsideI18n == <<limiterVars, grpcVars, metricsVars, dbVars, configVars,
                 sentryVars,
    chainVars>>
outsideMetrics == <<limiterVars, grpcVars, i18nVars, dbVars, configVars,
                    sentryVars,
    chainVars>>
outsideDb == <<limiterVars, grpcVars, i18nVars, metricsVars, configVars,
               sentryVars,
    chainVars>>
outsideConfig == <<limiterVars, grpcVars, i18nVars, metricsVars, dbVars,
                   sentryVars,
    chainVars>>
outsideSentry == <<limiterVars, grpcVars, i18nVars, metricsVars, dbVars,
                   configVars,
    chainVars>>
outsideChain == <<limiterVars, grpcVars, i18nVars, metricsVars, dbVars,
    configVars, sentryVars>>

\* What the calls of the limiters, made one after the other, leave alone
outsideLimiter == <<concVars, grpcVars, kitVars>>

-----------------------------------------------------------------------------
\* Bounds of the model

MaxTime == 2
MaxLimit == 2
MaxWindow == 2
MaxN == 2
MaxCalls == 3
MaxConns == 3
MaxRPCs == 2
MaxServers == 2
MaxRequests == 3

Keys == {"k1", "k2"}
Clients == {"c1", "c2"}
Goroutines == {"g1", "g2"}
Times == 0..MaxTime
NoTTL == -1
NoCall == [op |-> "none"]

-----------------------------------------------------------------------------
\* Redis commands used by the scripts, on one sorted set z

\* ZREMRANGEBYSCORE key min max: drops the members with min <= score <= max
ZREMRANGEBYSCORE(z, min, max) == {e \in z : ~(min <= e.s /\ e.s <= max)}

ZCARD(z) == Cardinality(z)

\* ZADD key score member: a member already in the set only has its score updated
ZADD(z, score, member) ==
    {e \in z : e.m # member} \cup {[m |-> member, s |-> score]}

\* for i = 1, increment do ZADD(key, now, now .. ':' .. i) end
RECURSIVE AddRecords(_, _, _)
AddRecords(z, now, i) ==
    IF i = 0 THEN z
    ELSE ZADD(AddRecords(z, now, i - 1), now, <<now, i>>)

\* AllowNScript, with the records added before the limit is looked at
AllowNScriptAddsFirst(z, window_start, now, lim, increment) ==
    LET purged == ZREMRANGEBYSCORE(z, 0, window_start)
        current == ZCARD(purged)
    IN  IF current + increment > lim
        THEN [allowed |-> 0, count |-> current,
              z |-> AddRecords(purged, now, increment), added |-> FALSE]
        ELSE [allowed |-> 1, count |-> current + increment,
              z |-> AddRecords(purged, now, increment), added |-> TRUE]

\* The AllowN script's reply {allowed, count} and the sorted set it leaves
AllowNScript(z, window_start, now, lim, increment) ==
    LET purged == ZREMRANGEBYSCORE(z, 0, window_start)
        current == ZCARD(purged)
    IN  IF current + increment > lim
        THEN [allowed |-> 0, count |-> current, z |-> purged, added |-> FALSE]
        ELSE [allowed |-> 1, count |-> current + increment,
              z |-> AddRecords(purged, now, increment), added |-> TRUE]

\* GetRemainingScript, with the events of one more second dropped
GetRemainingScriptDropsMore(z, window_start, lim) ==
    LET purged == ZREMRANGEBYSCORE(z, 0, window_start + 1)
    IN  [reply |-> lim - ZCARD(purged), z |-> purged]

\* The GetRemaining script's reply and the sorted set it leaves
GetRemainingScript(z, window_start, lim) ==
    LET purged == ZREMRANGEBYSCORE(z, 0, window_start)
    IN  [reply |-> lim - ZCARD(purged), z |-> purged]

\* An empty sorted set is no key at all, and has no time to live
TTLOf(z, ttl) == IF z = {} THEN NoTTL ELSE ttl

ZeroAcc == [t \in Times |-> 0]

-----------------------------------------------------------------------------
\* RedisRateLimiter

\* What a call returned: pre is the key's stored state when the call ran
Returned(impl, op, key, n, now, pre, allowed, err, remaining) ==
    [impl |-> impl, op |-> op, key |-> key, n |-> n, now |-> now, pre |-> pre,
     allowed |-> allowed, err |-> err, remaining |-> remaining]

\* The history forgets the events that have left the window
Forget(acc, now) ==
    [k \in Keys |-> [t \in Times |-> IF t > now - window THEN acc[k][t] ELSE 0]]

\* AllowN, client side: now and windowStart are computed, the script is sent
RedisAllowNCall(c, key, n, op) ==
    /\ kind = "redis"
    /\ rpend[c] = NoCall
    /\ ncalls < MaxCalls
    /\ ncalls' = ncalls + 1
    /\ rpend' = [rpend EXCEPT ![c] =
            [op |-> op, key |-> key, n |-> n, now |-> clock,
             windowStart |-> clock - window]]
    /\ last' = NoCall
    /\ UNCHANGED <<rlVars, zset, rexpire, racc, memVars>>
    /\ UNCHANGED <<shadow, outsideLimiter>>

RedisAllowN(c, key, n) ==
    RedisAllowNCall(c, key, n, "AllowN") /\ UNCHANGED rliVars

RedisAllow(c, key) == RedisAllowNCall(c, key, 1, "Allow") /\ UNCHANGED rliVars

\* AllowN, server side: the script runs as one step, the reply is decoded
RedisAllowNReply(c) ==
    /\ rpend[c].op \in {"AllowN", "Allow"}
    /\ LET p == rpend[c]
           r == AllowNScript(zset[p.key], p.windowStart, p.now, limit, p.n)
       IN  /\ zset' = [zset EXCEPT ![p.key] = r.z]
           /\ rexpire' = [rexpire EXCEPT ![p.key] =
                    IF r.added THEN clock + window + 1
                    ELSE TTLOf(r.z, rexpire[p.key])]
           /\ racc' = IF r.added /\ p.now > clock - window
                      THEN [racc EXCEPT ![p.key][p.now] = @ + p.n]
                      ELSE racc
           /\ last' = Returned("redis", p.op, p.key, p.n, p.now, zset[p.key],
                               r.allowed = 1, FALSE, 0)
           /\ LET q == AllowNScript(shadow.z[p.key], p.windowStart, p.now,
                                    limit, p.n)
              IN  shadow' = [shadow EXCEPT
                      !.z[p.key] = q.z,
                      !.ttl[p.key] = IF q.added THEN clock + window + 1
                                     ELSE TTLOf(q.z, @),
                      !.allowed = (q.allowed = 1)]
    /\ rpend' = [rpend EXCEPT ![c] = NoCall]
    /\ UNCHANGED <<rlVars, ncalls, memVars>>
    /\ UNCHANGED outsideLimiter

\* AllowN returns to a caller that is not an interceptor
RedisAllowNEval(c) == RedisAllowNReply(c) /\ UNCHANGED rliVars

\* Eval fails (the server cannot be reached): false, or 0, and the error
RedisEvalFails(c) ==
    /\ rpend[c] # NoCall
    /\ LET p == rpend[c]
       IN  last' = Returned("redis", p.op, p.key, p.n, p.now, zset[p.key],
                            FALSE, TRUE, 0)
    /\ rpend' = [rpend EXCEPT ![c] = NoCall]
    /\ UNCHANGED <<rlVars, zset, rexpire, racc, ncalls, memVars>>
    /\ UNCHANGED <<shadow, outsideLimiter>>

\* The call returns its error to a caller that is not an interceptor
RedisEvalError(c) == RedisEvalFails(c) /\ UNCHANGED rliVars

\* GetRemaining, client side
RedisGetRemaining(c, key) ==
    /\ kind = "redis"
    /\ rpend[c] = NoCall
    /\ ncalls < MaxCalls
    /\ ncalls' = ncalls + 1
    /\ rpend' = [rpend EXCEPT ![c] =
            [op |-> "GetRemaining", key |-> key, n |-> 0, now |-> clock,
             windowStart |-> clock - window]]
    /\ last' = NoCall
    /\ UNCHANGED <<rlVars, zset, rexpire, racc, memVars>>
    /\ UNCHANGED <<shadow, rliVars, outsideLimiter>>

\* GetRemaining, server side, and the clamp of the reply at 0
RedisGetRemainingEval(c) ==
    /\ rpend[c].op = "GetRemaining"
    /\ LET p == rpend[c]
           r == GetRemainingScript(zset[p.key], p.windowStart, limit)
       IN  /\ zset' = [zset EXCEPT ![p.key] = r.z]
           /\ rexpire' = [rexpire EXCEPT ![p.key] = TTLOf(r.z, rexpire[p.key])]
           /\ last' = Returned("redis", p.op, p.key, 0, p.now, zset[p.key],
                               FALSE, FALSE, IF r.reply < 0 THEN 0 ELSE r.reply)
    /\ rpend' = [rpend EXCEPT ![c] = NoCall]
    /\ UNCHANGED <<rlVars, racc, ncalls, memVars>>
    /\ UNCHANGED <<shadow, rliVars, outsideLimiter>>

\* Reset: DEL key
RedisReset(c, key) ==
    /\ kind = "redis"
    /\ rpend[c] = NoCall
    /\ ncalls < MaxCalls
    /\ ncalls' = ncalls + 1
    /\ zset' = [zset EXCEPT ![key] = {}]
    /\ rexpire' = [rexpire EXCEPT ![key] = NoTTL]
    /\ racc' = [racc EXCEPT ![key] = ZeroAcc]
    /\ shadow' = [shadow EXCEPT !.z[key] = {}, !.ttl[key] = NoTTL]
    /\ last' = Returned("redis", "Reset", key, 0, clock, zset[key],
                        FALSE, FALSE, 0)
    /\ UNCHANGED <<rlVars, rpend, memVars>>
    /\ UNCHANGED <<rliVars, outsideLimiter>>

\* EXPIRE key ttl: the time to live has run out
Expired(ttl) == ttl # NoTTL /\ ttl <= clock

\* The server drops a key whose time to live has run out
RedisExpire(key) ==
    /\ Expired(rexpire[key]) \/ Expired(shadow.ttl[key])
    /\ zset' = [zset EXCEPT ![key] = IF Expired(rexpire[key]) THEN {} ELSE @]
    /\ rexpire' = [rexpire EXCEPT ![key] = IF Expired(@) THEN NoTTL ELSE @]
    /\ shadow' = [shadow EXCEPT
            !.z[key] = IF Expired(shadow.ttl[key]) THEN {} ELSE @,
            !.ttl[key] = IF Expired(@) THEN NoTTL ELSE @]
    /\ last' = NoCall
    /\ UNCHANGED <<rlVars, rpend, racc, ncalls, memVars>>
    /\ rllast' = NoCall
    /\ UNCHANGED <<rlpc, rlloc, outsideLimiter>>

\* A second passes
Tick ==
    /\ clock < MaxTime
    /\ clock' = clock + 1
    /\ last' = NoCall
    /\ racc' = Forget(racc, clock')
    /\ macc' = Forget(macc, clock')
    /\ UNCHANGED <<kind, limit, window, zset, rexpire, rpend, mreq, ncalls>>
    /\ rllast' = NoCall
    /\ UNCHANGED <<shadow, rlpc, rlloc, outsideLimiter>>

-----------------------------------------------------------------------------
\* MemoryRateLimiter, its calls made one after the other

\* After, with an event stamped exactly windowStart kept
AfterOrEqual(req, windowStart) == req >= windowStart

\* req.After(windowStart)
After(req, windowStart) == req > windowStart

\* The loop that keeps the requests still inside the window
ValidRequests(requests, windowStart) ==
    SelectSeq(requests, LAMBDA req : After(req, windowStart))

\* if requests, exists := m.requests[key]; exists { ... m.requests[key] = validRequests }
PurgeKey(m, key, windowStart) ==
    IF key \in DOMAIN m
    THEN [m EXCEPT ![key] = ValidRequests(m[key], windowStart)]
    ELSE m

\* m.requests[key] of a key that may be missing
Requests(m, key) == IF key \in DOMAIN m THEN m[key] ELSE <<>>

\* m.requests[key] = value
SetKey(m, key, value) ==
    [k \in DOMAIN m \cup {key} |-> IF k = key THEN value ELSE m[k]]

\* DeleteKey, with the key left where it is
DeleteNoKey(m, key) == m

\* delete(m.requests, key)
DeleteKey(m, key) == [k \in DOMAIN m \ {key} |-> m[k]]

\* OverLimit, with a call that fills the key to its limit refused
OverLimitAtLimit(currentCount, n, lim) == currentCount + n >= lim

\* OverLimit, with the increment left out of the check
OverLimitWithoutN(currentCount, n, lim) == currentCount > lim

\* for i := 0; i < n; i++ { m.requests[key] = append(m.requests[key], now) }
RECURSIVE AppendN(_, _, _)
AppendN(requests, now, n) ==
    IF n = 0 THEN requests ELSE Append(AppendN(requests, now, n - 1), now)

\* The check of AllowN: true when the call is rejected
OverLimit(currentCount, n, lim) == currentCount + n > lim

\* AllowN(key, n) called at time now on the requests m: what it returns and
\* the requests it leaves
MemoryAllowNOn(m, key, now, n) ==
    LET purged == PurgeKey(m, key, now - window)
        current == Requests(purged, key)
    IN  IF OverLimit(Len(current), n, limit)
        THEN [allowed |-> FALSE, requests |-> purged]
        ELSE [allowed |-> TRUE,
              requests |-> SetKey(purged, key, AppendN(current, now, n))]

MemoryAllowNCall(key, n, op) ==
    /\ kind = "memory"
    /\ ncalls < MaxCalls
    /\ ncalls' = ncalls + 1
    /\ LET now == clock
           windowStart == now - window
           purged == PurgeKey(mreq, key, windowStart)
           currentCount == Len(Requests(purged, key))
       IN  IF OverLimit(currentCount, n, limit)
           THEN /\ mreq' = purged
                /\ macc' = macc
                /\ last' = Returned("memory", op, key, n, now,
                                    Requests(mreq, key), FALSE, FALSE, 0)
           ELSE /\ mreq' = SetKey(purged, key,
                                  AppendN(Requests(purged, key), now, n))
                /\ macc' = [macc EXCEPT ![key][now] = @ + n]
                /\ last' = Returned("memory", op, key, n, now,
                                    Requests(mreq, key), TRUE, FALSE, 0)
    /\ LET q == MemoryAllowNOn(shadow.m, key, clock, n)
       IN  shadow' = [shadow EXCEPT !.m = q.requests, !.allowed = q.allowed]
    /\ UNCHANGED <<rlVars, redisVars>>
    /\ UNCHANGED outsideLimiter

MemoryAllowN(key, n) ==
    MemoryAllowNCall(key, n, "AllowN") /\ UNCHANGED rliVars

MemoryAllow(key) == MemoryAllowNCall(key, 1, "Allow") /\ UNCHANGED rliVars

MemoryReset(key) ==
    /\ kind = "memory"
    /\ ncalls < MaxCalls
    /\ ncalls' = ncalls + 1
    /\ mreq' = DeleteKey(mreq, key)
    /\ macc' = [macc EXCEPT ![key] = ZeroAcc]
    /\ shadow' = [shadow EXCEPT !.m = DeleteKey(@, key)]
    /\ last' = Returned("memory", "Reset", key, 0, clock, Requests(mreq, key),
                        FALSE, FALSE, 0)
    /\ UNCHANGED <<rlVars, redisVars>>
    /\ UNCHANGED <<rliVars, outsideLimiter>>

MemoryGetRemaining(key) ==
    /\ kind = "memory"
    /\ ncalls < MaxCalls
    /\ ncalls' = ncalls + 1
    /\ LET now == clock
           windowStart == now - window
           purged == PurgeKey(mreq, key, windowStart)
       IN  /\ mreq' = purged
           /\ last' = Returned("memory", "GetRemaining", key, 0, now,
                               Requests(mreq, key), FALSE, FALSE,
                               IF key \in DOMAIN mreq
                               THEN limit - Len(purged[key])
                               ELSE limit)
    /\ UNCHANGED <<rlVars, redisVars, macc>>
    /\ UNCHANGED <<shadow, rliVars, outsideLimiter>>

-----------------------------------------------------------------------------
\* MemoryRateLimiter called from several goroutines.  The struct holds no
\* mutex: the statements of the calls interleave on the shared map.

Locals(op, key, n, now, requests, i) ==
    [op |-> op, key |-> key, n |-> n, now |-> now, requests |-> requests, i |-> i]

\* now := time.Now(); windowStart := now.Add(-m.window)
ConcBegin(g, op, key, n) ==
    /\ ~mfatal
    /\ kind = "memory"
    /\ mpc[g] = "idle"
    /\ ncalls < MaxCalls
    /\ ncalls' = ncalls + 1
    /\ mloc' = [mloc EXCEPT ![g] = Locals(op, key, n, clock, <<>>, 0)]
    /\ mpc' = [mpc EXCEPT ![g] = IF op = "Reset" THEN "delete" ELSE "read"]
    /\ UNCHANGED <<rlVars, redisVars, memVars, last, mfatal>>
    /\ UNCHANGED <<shadow, rliVars, outsideMemory>>

\* if requests, exists := m.requests[key]; exists {
ConcRead(g) ==
    /\ ~mfatal
    /\ mpc[g] = "read"
    /\ LET l == mloc[g]
       IN  IF l.key \in DOMAIN mreq
           THEN /\ mloc' = [mloc EXCEPT ![g].requests = mreq[l.key]]
                /\ mpc' = [mpc EXCEPT ![g] = "write"]
           ELSE /\ mloc' = [mloc EXCEPT ![g] =
                        IF l.op = "GetRemaining" THEN NoCall ELSE l]
                /\ mpc' = [mpc EXCEPT ![g] =
                        IF l.op = "GetRemaining" THEN "idle" ELSE "check"]
    /\ UNCHANGED <<rlVars, redisVars, memVars, last, ncalls, mfatal>>
    /\ UNCHANGED <<shadow, rliVars, outsideMemory>>

\* the loop over requests, then m.requests[key] = validRequests
ConcWrite(g) ==
    /\ ~mfatal
    /\ mpc[g] = "write"
    /\ LET l == mloc[g]
       IN  /\ mreq' = SetKey(mreq, l.key,
                             ValidRequests(l.requests, l.now - window))
           /\ mloc' = [mloc EXCEPT ![g] =
                        IF l.op = "GetRemaining" THEN NoCall ELSE l]
           /\ mpc' = [mpc EXCEPT ![g] =
                        IF l.op = "GetRemaining" THEN "idle" ELSE "check"]
    /\ UNCHANGED <<rlVars, redisVars, macc, last, ncalls, mfatal>>
    /\ UNCHANGED <<shadow, rliVars, outsideMemory>>

\* currentCount := len(m.requests[key]); if currentCount+n > m.limit { return false, nil }
ConcCheck(g) ==
    /\ ~mfatal
    /\ mpc[g] = "check"
    /\ LET l == mloc[g]
           currentCount == Len(Requests(mreq, l.key))
       IN  IF OverLimit(currentCount, l.n, limit)
           THEN /\ mpc' = [mpc EXCEPT ![g] = "idle"]
                /\ mloc' = [mloc EXCEPT ![g] = NoCall]
           ELSE /\ mpc' = [mpc EXCEPT ![g] = "append"]
                /\ mloc' = mloc
    /\ UNCHANGED <<rlVars, redisVars, memVars, last, ncalls, mfatal>>
    /\ UNCHANGED <<shadow, rliVars, outsideMemory>>

\* m.requests[key] = append(m.requests[key], now), once around the loop;
\* return true, nil after the last time
ConcAppend(g) ==
    /\ ~mfatal
    /\ mpc[g] = "append"
    /\ LET l == mloc[g]
       IN  /\ mreq' = SetKey(mreq, l.key, Append(Requests(mreq, l.key), l.now))
           /\ macc' = IF l.now > clock - window
                      THEN [macc EXCEPT ![l.key][l.now] = @ + 1]
                      ELSE macc
           /\ IF l.i + 1 < l.n
              THEN /\ mloc' = [mloc EXCEPT ![g].i = l.i + 1]
                   /\ mpc' = mpc
              ELSE /\ mloc' = [mloc EXCEPT ![g] = NoCall]
                   /\ mpc' = [mpc EXCEPT ![g] = "idle"]
    /\ UNCHANGED <<rlVars, redisVars, last, ncalls, mfatal>>
    /\ UNCHANGED <<shadow, rliVars, outsideMemory>>

\* delete(m.requests, key); return nil
ConcDelete(g) ==
    /\ ~mfatal
    /\ mpc[g] = "delete"
    /\ mreq' = DeleteKey(mreq, mloc[g].key)
    /\ macc' = [macc EXCEPT ![mloc[g].key] = ZeroAcc]
    /\ mloc' = [mloc EXCEPT ![g] = NoCall]
    /\ mpc' = [mpc EXCEPT ![g] = "idle"]
    /\ UNCHANGED <<rlVars, redisVars, last, ncalls, mfatal>>
    /\ UNCHANGED <<shadow, rliVars, outsideMemory>>

\* Two goroutines are at the map at once, one of them to write it: the Go
\* runtime may stop the process (fatal error: concurrent map writes)
ConcFatal ==
    /\ ~mfatal
    /\ \E g, h \in Goroutines :
          /\ g # h
          /\ mpc[g] \in {"write", "append", "delete"}
          /\ mpc[h] \in {"read", "write", "check", "append", "delete"}
    /\ mfatal' = TRUE
    /\ UNCHANGED <<rlVars, redisVars, memVars, last, ncalls, mpc, mloc>>
    /\ UNCHANGED <<shadow, rliVars, outsideMemory>>

NextMemoryConc ==
    \/ Tick
    \/ \E g \in Goroutines, n \in 1..MaxN : ConcBegin(g, "AllowN", "k1", n)
    \/ \E g \in Goroutines : ConcBegin(g, "GetRemaining", "k1", 0)
    \/ \E g \in Goroutines : ConcBegin(g, "Reset", "k1", 0)
    \/ \E g \in Goroutines : ConcRead(g)
    \/ \E g \in Goroutines : ConcWrite(g)
    \/ \E g \in Goroutines : ConcCheck(g)
    \/ \E g \in Goroutines : ConcAppend(g)
    \/ \E g \in Goroutines : ConcDelete(g)
    \/ ConcFatal

-----------------------------------------------------------------------------
\* ClientManager (package grpc).  A section of code that holds cm.mu is one step.

Names == {"a", "b"}
Targets == {"t1", "t2"}
NoConn == 0

\* The connections created so far, and those not closed
Created == DOMAIN conns
Open == {c \in Created : conns[c].state # "SHUTDOWN"}

\* NewClientManager: both maps empty
NewClientManager ==
    /\ configs = <<>>
    /\ connections = <<>>
    /\ conns = <<>>
    /\ cpc = [g \in Goroutines |-> "idle"]
    /\ cloc = [g \in Goroutines |-> NoCall]
    /\ clast = NoCall

\* m[name] = value, and delete(m, name), on a Go map
MapPut(m, name, value) ==
    [k \in DOMAIN m \cup {name} |-> IF k = name THEN value ELSE m[k]]

MapDelete(m, name) == [k \in DOMAIN m \ {name} |-> m[k]]

\* conn, exists := m[name]
MapGet(m, name) == IF name \in DOMAIN m THEN m[name] ELSE NoConn

\* conn.Close(): the connection is in SHUTDOWN from then on
CloseConn(cs, c) == [cs EXCEPT ![c].state = "SHUTDOWN"]

\* What a ClientManager call returned.  made: the connections created since
\* the call began; had, hadState, configured: the connection stored for the
\* name, and whether the name had a config, when the call began
ClientReturned(op, name, conn, err, made, had, hadState, configured) ==
    [op |-> op, name |-> name, conn |-> conn, err |-> err, made |-> made,
     had |-> had, hadState |-> hadState, configured |-> configured]

StateOf(c) == IF c = NoConn THEN "none" ELSE conns[c].state

\* IsShutdown, with a connection that is not READY taken for closed as well
IsNotReady(c) == conns[c].state # "READY"

\* conn.GetState().String() == "SHUTDOWN"
IsShutdown(c) == conns[c].state = "SHUTDOWN"

\* AddClient: cm.configs[name] = config
AddClient(g, name, target) ==
    /\ cpc[g] = "idle"
    /\ configs' = MapPut(configs, name, target)
    /\ clast' = ClientReturned("AddClient", name, NoConn, FALSE, 0,
                               MapGet(connections, name),
                               StateOf(MapGet(connections, name)),
                               name \in DOMAIN configs)
    /\ UNCHANGED <<connections, conns, cpc, cloc>>
    /\ UNCHANGED outsideClient

\* GetClient, the section under RLock and the test of configExists
GetClientRead(g, name) ==
    /\ cpc[g] = "idle"
    /\ LET conn == MapGet(connections, name)
           exists == name \in DOMAIN connections
           configExists == name \in DOMAIN configs
           l == [op |-> "GetClient", name |-> name, conn |-> conn,
                 config |-> IF configExists THEN configs[name] ELSE "none",
                 had |-> conn, hadState |-> StateOf(conn),
                 before |-> Cardinality(Created), new |-> NoConn]
       IN  IF ~configExists
           THEN /\ clast' = ClientReturned("GetClient", name, NoConn, TRUE, 0,
                                           conn, StateOf(conn), FALSE)
                /\ UNCHANGED <<cpc, cloc>>
           ELSE /\ cloc' = [cloc EXCEPT ![g] = l]
                /\ cpc' = [cpc EXCEPT ![g] =
                        IF exists /\ conn # NoConn THEN "state" ELSE "create"]
                /\ clast' = NoCall
    /\ UNCHANGED <<configs, connections, conns>>
    /\ UNCHANGED outsideClient

\* if conn.GetState().String() != "SHUTDOWN" { return conn, nil }
GetClientState(g) ==
    /\ cpc[g] = "state"
    /\ LET l == cloc[g]
       IN  IF ~IsShutdown(l.conn)
           THEN /\ clast' = ClientReturned("GetClient", l.name, l.conn, FALSE,
                                           Cardinality(Created) - l.before,
                                           l.had, l.hadState, TRUE)
                /\ cpc' = [cpc EXCEPT ![g] = "idle"]
                /\ cloc' = [cloc EXCEPT ![g] = NoCall]
           ELSE /\ clast' = NoCall
                /\ cpc' = [cpc EXCEPT ![g] = "drop"]
                /\ cloc' = cloc
    /\ UNCHANGED <<configs, connections, conns>>
    /\ UNCHANGED outsideClient

\* cm.mu.Lock(); delete(cm.connections, name); cm.mu.Unlock()
GetClientDrop(g) ==
    /\ cpc[g] = "drop"
    /\ connections' = MapDelete(connections, cloc[g].name)
    /\ cpc' = [cpc EXCEPT ![g] = "create"]
    /\ clast' = NoCall
    /\ UNCHANGED <<configs, conns, cloc>>
    /\ UNCHANGED outsideClient

\* createConnection(config) succeeds: a new connection to config.Target
CreateConnection(g) ==
    /\ cpc[g] = "create"
    /\ Cardinality(Created) < MaxConns
    /\ LET c == Cardinality(Created) + 1
       IN  /\ conns' = MapPut(conns, c,
                              [target |-> cloc[g].config, state |-> "IDLE"])
           /\ cloc' = [cloc EXCEPT ![g].new = c]
    /\ cpc' = [cpc EXCEPT ![g] = "store"]
    /\ clast' = NoCall
    /\ UNCHANGED <<configs, connections>>
    /\ UNCHANGED outsideClient

\* createConnection(config) fails: GetClient returns the error
CreateConnectionError(g) ==
    /\ cpc[g] = "create"
    /\ LET l == cloc[g]
       IN  clast' = ClientReturned("GetClient", l.name, NoConn, TRUE,
                                   Cardinality(Created) - l.before,
                                   l.had, l.hadState, TRUE)
    /\ cpc' = [cpc EXCEPT ![g] = "idle"]
    /\ cloc' = [cloc EXCEPT ![g] = NoCall]
    /\ UNCHANGED <<configs, connections, conns>>
    /\ UNCHANGED outsideClient

\* cm.mu.Lock(); cm.connections[name] = conn; cm.mu.Unlock(); return conn, nil
GetClientStore(g) ==
    /\ cpc[g] = "store"
    /\ LET l == cloc[g]
       IN  /\ connections' = MapPut(connections, l.name, l.new)
           /\ clast' = ClientReturned("GetClient", l.name, l.new, FALSE,
                                      Cardinality(Created) - l.before,
                                      l.had, l.hadState, TRUE)
    /\ cpc' = [cpc EXCEPT ![g] = "idle"]
    /\ cloc' = [cloc EXCEPT ![g] = NoCall]
    /\ UNCHANGED <<configs, conns>>
    /\ UNCHANGED outsideClient

\* CloseClient: the whole call holds the lock
CloseClient(g, name) ==
    /\ cpc[g] = "idle"
    /\ LET conn == MapGet(connections, name)
       IN  IF name \notin DOMAIN connections
           THEN /\ clast' = ClientReturned("CloseClient", name, NoConn, TRUE, 0,
                                           conn, StateOf(conn),
                                           name \in DOMAIN configs)
                /\ UNCHANGED <<connections, conns>>
           ELSE /\ conns' = CloseConn(conns, conn)
                /\ connections' = MapDelete(connections, name)
                /\ clast' = ClientReturned("CloseClient", name, conn, FALSE, 0,
                                           conn, StateOf(conn),
                                           name \in DOMAIN configs)
    /\ UNCHANGED <<configs, cpc, cloc>>
    /\ UNCHANGED outsideClient

\* The connections stored in cm.connections
Stored == {connections[name] : name \in DOMAIN connections}

\* conn.Close() of a connection that is closed already returns an error
CloseFails(c) == StateOf(c) = "SHUTDOWN"

\* CloseAll, the loop: conn.Close() for every stored connection; lastErr
AllClosed == [c \in Created |->
                 IF c \in Stored THEN [conns[c] EXCEPT !.state = "SHUTDOWN"]
                 ELSE conns[c]]
CloseAllFails == \E c \in Stored : CloseFails(c)

\* CloseAll: every stored connection is closed, both maps are made anew
CloseAll(g) ==
    /\ cpc[g] = "idle"
    /\ conns' = AllClosed
    /\ connections' = <<>>
    /\ configs' = <<>>
    /\ clast' = ClientReturned("CloseAll", "", NoConn, CloseAllFails, 0,
                               NoConn, "none", FALSE)
    /\ UNCHANGED <<cpc, cloc>>
    /\ UNCHANGED outsideClient

\* The slices that hold each element of S once: what ranging over a map with
\* the keys S and appending each key can build
Orders(S) ==
    {s \in [1..Cardinality(S) -> S] : \A i, j \in DOMAIN s : s[i] = s[j] => i = j}

\* ConfigNames, with the names that have a connection instead
ConnectedNames == DOMAIN connections

\* for name := range cm.configs
ConfigNames == DOMAIN configs

\* ListClients: the names of cm.configs, in the order the map gives them
ListClients(g) ==
    /\ cpc[g] = "idle"
    /\ \E names \in Orders(ConfigNames) :
          clast' = [op |-> "ListClients", names |-> names]
    /\ UNCHANGED <<configs, connections, conns, cpc, cloc>>
    /\ UNCHANGED outsideClient

\* A goroutine, between its calls, closes the connection GetClient handed to it
CallerCloses(g, c) ==
    /\ cpc[g] = "idle"
    /\ c \in Open
    /\ \E name \in DOMAIN connections : connections[name] = c
    /\ conns' = CloseConn(conns, c)
    /\ clast' = NoCall
    /\ UNCHANGED <<configs, connections, cpc, cloc>>
    /\ UNCHANGED outsideClient

\* The state of a connection changes as its transport comes and goes
ConnChanges(c) ==
    /\ c \in Open
    /\ conns' = [conns EXCEPT ![c].state =
            IF @ = "IDLE" THEN "READY" ELSE "IDLE"]
    /\ clast' = NoCall
    /\ UNCHANGED <<configs, connections, cpc, cloc>>
    /\ UNCHANGED outsideClient

\* The calls of the goroutines of GS on the names of NS; with one goroutine
\* they come one by one
NextClient(GS, NS) ==
    \/ \E g \in GS, name \in NS, t \in Targets : AddClient(g, name, t)
    \/ \E g \in GS, name \in NS : GetClientRead(g, name)
    \/ \E g \in GS : GetClientState(g)
    \/ \E g \in GS : GetClientDrop(g)
    \/ \E g \in GS : CreateConnection(g)
    \/ \E g \in GS : CreateConnectionError(g)
    \/ \E g \in GS : GetClientStore(g)
    \/ \E g \in GS, name \in NS : CloseClient(g, name)
    \/ \E g \in GS : CloseAll(g)
    \/ \E g \in GS : ListClients(g)
    \/ \E g \in GS, c \in Created : CallerCloses(g, c)
    \/ \E c \in Created : ConnChanges(c)

-----------------------------------------------------------------------------
\* Server and Manager (package grpc)

Services == {"s1", "s2"}
NoServer == 0

\* DefaultConfig().Clients: make(map[string]ClientConfig)
DefaultClients == <<>>

\* NewManager with the default Config: a ClientManager, and no Server yet
NewManager ==
    /\ NewClientManager
    /\ mconfig = DefaultClients
    /\ added = {}
    /\ removed = {}
    /\ msrv = NoServer
    /\ nsrv = 0
    /\ sstate = "none"
    /\ registered = {}
    /\ rpcs = 0
    /\ startpc = "idle"
    /\ spc = "idle"
    /\ sgo = "none"
    /\ sdone = FALSE
    /\ ctx = "background"
    /\ shist = [gs |-> FALSE, first |-> FALSE]
    /\ slast = NoCall

\* The Server of the Manager, as a caller can see it
Snapshot == [server |-> msrv, state |-> sstate, registered |-> registered,
             start |-> startpc]

ManagerReturned(op, err, pre) == [op |-> op, err |-> err, pre |-> pre]

\* AlreadyInitialized, with the test left out
NeverInitialized == FALSE

\* if m.server != nil
AlreadyInitialized == msrv # NoServer

\* InitServer; ok: NewServer can listen on the address and load its TLS files
InitServer(ok) ==
    /\ IF AlreadyInitialized
       THEN /\ slast' = ManagerReturned("InitServer", "already initialized",
                                        Snapshot)
            /\ UNCHANGED <<msrv, nsrv, sstate, registered, rpcs>>
       ELSE IF ~ok
       THEN /\ slast' = ManagerReturned("InitServer", "failed to create server",
                                        Snapshot)
            /\ UNCHANGED <<msrv, nsrv, sstate, registered, rpcs>>
       ELSE /\ nsrv < MaxServers
            /\ nsrv' = nsrv + 1
            /\ msrv' = nsrv + 1
            /\ sstate' = "new"
            /\ registered' = {}
            /\ rpcs' = 0
            /\ slast' = ManagerReturned("InitServer", "nil", Snapshot)
    /\ UNCHANGED <<startpc, spc, sgo, sdone, ctx, shist>>
    /\ UNCHANGED outsideServer

\* RegisterService.  (grpc ends the process when a service is registered after
\* Serve: callers register on a new Server.)
RegisterService(svc) ==
    /\ IF msrv = NoServer
       THEN /\ slast' = ManagerReturned("RegisterService", "not initialized",
                                        Snapshot)
            /\ UNCHANGED registered
       ELSE /\ sstate = "new"
            /\ registered' = registered \cup {svc}
            /\ slast' = ManagerReturned("RegisterService", "nil", Snapshot)
    /\ UNCHANGED <<msrv, nsrv, sstate, rpcs, startpc, spc, sgo, sdone, ctx, shist>>
    /\ UNCHANGED outsideServer

\* StartServer: without a Server an error; on a new Server, Serve starts and the
\* call stays in it; on a stopped Server, Serve returns at once
StartServer ==
    /\ startpc = "idle"
    /\ IF msrv = NoServer
       THEN /\ slast' = ManagerReturned("StartServer", "not initialized",
                                        Snapshot)
            /\ UNCHANGED <<sstate, startpc>>
       ELSE IF sstate = "new"
       THEN /\ sstate' = "serving"
            /\ startpc' = "serving"
            /\ slast' = NoCall
       ELSE /\ sstate \in {"stopping", "stopped"}
            /\ slast' = ManagerReturned("StartServer", "server stopped",
                                        Snapshot)
            /\ UNCHANGED <<sstate, startpc>>
    /\ UNCHANGED <<msrv, nsrv, registered, rpcs, spc, sgo, sdone, ctx, shist>>
    /\ UNCHANGED outsideServer

\* Serve returns once the Server is stopped, and StartServer with it
ServeReturns ==
    /\ startpc = "serving"
    /\ sstate \in {"stopping", "stopped"}
    /\ startpc' = "idle"
    /\ slast' = ManagerReturned("StartServer", "nil", Snapshot)
    /\ UNCHANGED <<msrv, nsrv, sstate, registered, rpcs, spc, sgo, sdone, ctx,
                   shist>>
    /\ UNCHANGED outsideServer

\* A call arrives at the serving Server; a call it handles ends
RPCArrives ==
    /\ sstate = "serving"
    /\ rpcs < MaxRPCs
    /\ rpcs' = rpcs + 1
    /\ slast' = NoCall
    /\ UNCHANGED <<msrv, nsrv, sstate, registered, startpc, spc, sgo, sdone, ctx,
                   shist>>
    /\ UNCHANGED outsideServer

RPCEnds ==
    /\ rpcs > 0
    /\ rpcs' = rpcs - 1
    /\ slast' = NoCall
    /\ UNCHANGED <<msrv, nsrv, sstate, registered, startpc, spc, sgo, sdone, ctx,
                   shist>>
    /\ UNCHANGED outsideServer

\* StopServer(ctx): without a Server nil; else Server.Stop makes the done
\* channel, starts its goroutine and goes to its select.  c: the ctx given,
\* which may be done already
StopServer(c) ==
    /\ spc = "idle"
    /\ sgo \in {"none", "exit"}
    /\ IF msrv = NoServer
       THEN /\ slast' = [op |-> "StopServer", err |-> "nil", pre |-> Snapshot,
                         go |-> sgo]
            /\ UNCHANGED <<spc, sgo, sdone, ctx, shist>>
       ELSE /\ spc' = "select"
            /\ sgo' = "spawned"
            /\ sdone' = FALSE
            /\ ctx' = c
            /\ shist' = [gs |-> FALSE, first |-> (c = "done")]
            /\ slast' = NoCall
    /\ UNCHANGED <<msrv, nsrv, sstate, registered, rpcs, startpc>>
    /\ UNCHANGED outsideServer

\* The goroutine calls s.server.GracefulStop(): no new call is taken
GracefulStopBegins ==
    /\ sgo = "spawned"
    /\ sgo' = "graceful"
    /\ sstate' = IF sstate = "stopped" THEN "stopped" ELSE "stopping"
    /\ slast' = NoCall
    /\ UNCHANGED <<msrv, nsrv, registered, rpcs, startpc, spc, sdone, ctx, shist>>
    /\ UNCHANGED outsideServer

\* GracefulStop returns: the calls have ended, or the Server was stopped
GracefulStopReturns ==
    /\ sgo = "graceful"
    /\ rpcs = 0 \/ sstate = "stopped"
    /\ sgo' = "close"
    /\ sstate' = "stopped"
    /\ shist' = [shist EXCEPT !.gs = TRUE]
    /\ slast' = NoCall
    /\ UNCHANGED <<msrv, nsrv, registered, rpcs, startpc, spc, sdone, ctx>>
    /\ UNCHANGED outsideServer

\* close(done)
CloseDone ==
    /\ sgo = "close"
    /\ sgo' = "exit"
    /\ sdone' = TRUE
    /\ slast' = NoCall
    /\ UNCHANGED <<msrv, nsrv, sstate, registered, rpcs, startpc, spc, ctx, shist>>
    /\ UNCHANGED outsideServer

\* The ctx of Server.Stop is cancelled or reaches its deadline
CtxDone ==
    /\ spc = "select"
    /\ ctx = "live"
    /\ ctx' = "done"
    /\ shist' = [shist EXCEPT !.first = ~shist.gs]
    /\ slast' = NoCall
    /\ UNCHANGED <<msrv, nsrv, sstate, registered, rpcs, startpc, spc, sgo, sdone>>
    /\ UNCHANGED outsideServer

\* What Server.Stop returned.  gs, first: as in shist; closed, ctxDone: the
\* done channel was closed, the ctx was done, when the select chose
StopReturned(err, forced) ==
    [op |-> "StopServer", err |-> err, pre |-> Snapshot, forced |-> forced,
     gs |-> shist.gs, first |-> shist.first, closed |-> sdone,
     ctxDone |-> (ctx = "done"), go |-> sgo]

\* case <-ctx.Done(), with the Server not stopped
CtxCaseWithoutStop ==
    /\ spc = "select"
    /\ ctx = "done"
    /\ spc' = "idle"
    /\ slast' = StopReturned("ctx.Err()", FALSE)
    /\ UNCHANGED <<msrv, nsrv, sstate, rpcs, registered, startpc, sgo, sdone, ctx,
                   shist>>
    /\ UNCHANGED outsideServer

\* case <-done: return nil
DoneCase ==
    /\ spc = "select"
    /\ sdone
    /\ spc' = "idle"
    /\ slast' = StopReturned("nil", FALSE)
    /\ UNCHANGED <<msrv, nsrv, sstate, registered, rpcs, startpc, sgo, sdone, ctx,
                   shist>>
    /\ UNCHANGED outsideServer

\* case <-ctx.Done(): s.server.Stop(); return ctx.Err()
CtxCase ==
    /\ spc = "select"
    /\ ctx = "done"
    /\ spc' = "idle"
    /\ sstate' = "stopped"
    /\ rpcs' = 0
    /\ slast' = StopReturned("ctx.Err()", TRUE)
    /\ UNCHANGED <<msrv, nsrv, registered, startpc, sgo, sdone, ctx, shist>>
    /\ UNCHANGED outsideServer

\* The select of Server.Stop: a case that is ready; any of them when both are
StopSelect == DoneCase \/ CtxCase

NextServer ==
    \/ \E ok \in BOOLEAN : InitServer(ok)
    \/ \E svc \in Services : RegisterService(svc)
    \/ StartServer
    \/ ServeReturns
    \/ RPCArrives
    \/ RPCEnds
    \/ \E c \in {"background", "live", "done"} : StopServer(c)
    \/ GracefulStopBegins
    \/ GracefulStopReturns
    \/ CloseDone
    \/ CtxDone
    \/ StopSelect

-----------------------------------------------------------------------------
\* Translator (package i18n)

LanguageEnglish == "en"
LanguageChinese == "zh"
LanguageJapanese == "ja"
LanguageKorean == "ko"
DefaultLanguage == LanguageEnglish

\* supportedLangs of LoadTranslations, in its order
SupportedLangs ==
    <<LanguageEnglish, LanguageChinese, LanguageJapanese, LanguageKorean>>

\* NewTranslator(lang)
NewTranslator(lang) ==
    /\ currentLang = lang
    /\ translations = <<>>
    /\ tlast = NoCall

\* JSON values as json.Unmarshal gives them: a string, a number (float64), or
\* an object, map[string]interface{}
JString(text) == [type |-> "string", text |-> text]
JNumber(n) == [type |-> "number", n |-> n]
JObject(fields) == [type |-> "object", fields |-> fields]

\* strconv of the numbers the files hold
Digits(n) == CASE n = 0 -> "0" [] n = 1 -> "1" [] n = 2 -> "2" [] OTHER -> "3"

\* fmt.Sprintf("%v", v) of a value that is neither string nor object
Sprintv(v) == Digits(v.n)

\* fullKey := key; if prefix != "" { fullKey = prefix + "." + key }
FullKey(prefix, key) == IF prefix # "" THEN prefix \o "." \o key ELSE key

\* flattenTranslations(prefix, nested, flat): the maps flat can be when it
\* returns, one for each order in which range gives the keys of the maps
RECURSIVE flattenTranslations(_, _, _)
flattenTranslations(prefix, nested, flat) ==
    IF DOMAIN nested = {} THEN {flat}
    ELSE UNION {
        LET value == nested[key]
            fullKey == FullKey(prefix, key)
            rest == [k \in DOMAIN nested \ {key} |-> nested[k]]
            done == CASE value.type = "string" ->
                            {MapPut(flat, fullKey, value.text)}
                      [] value.type = "object" ->
                            flattenTranslations(fullKey, value.fields, flat)
                      [] OTHER -> {MapPut(flat, fullKey, Sprintv(value))}
        IN  UNION {flattenTranslations(prefix, rest, f) : f \in done}
        : key \in DOMAIN nested}

\* What a directory holds for a language: no file, a file that is not JSON,
\* or the object of a JSON file
NoFile == [type |-> "missing"]
NotJSON == [type |-> "invalid"]

\* loadLanguageFile(lang, filePath): the values of t.translations it can
\* leave, with its error
loadLanguageFile(tr, lang, file) ==
    IF file.type # "object" THEN {[tr |-> tr, err |-> TRUE]}
    ELSE LET flat == IF lang \in DOMAIN tr THEN tr[lang] ELSE <<>>
         IN  {[tr |-> MapPut(tr, lang, f), err |-> FALSE] :
                 f \in flattenTranslations("", file.fields, flat)}

\* EndsLoading, with no error passed over
EndsAtAnyError(err, lang) == err

\* if err != nil { if lang == DefaultLanguage { return ... } }
EndsLoading(err, lang) == err /\ lang = DefaultLanguage

\* LoadTranslations(dir), from the i-th of supportedLangs on: an error of the
\* default language ends it, any other is passed over
RECURSIVE LoadFrom(_, _, _)
LoadFrom(tr, dir, i) ==
    IF i > Len(SupportedLangs) THEN {[tr |-> tr, err |-> FALSE]}
    ELSE LET lang == SupportedLangs[i]
         IN  UNION {
                IF EndsLoading(r.err, lang) THEN {r}
                ELSE LoadFrom(r.tr, dir, i + 1)
                : r \in loadLanguageFile(tr, lang, dir[lang])}

\* t.translations[lang][key], with found
Found(lang, key) == lang \in DOMAIN translations /\ key \in DOMAIN translations[lang]

\* TranslateWithLang, without the table of the default language
TranslateWithoutFallback(lang, key) ==
    IF Found(lang, key) THEN translations[lang][key] ELSE key

\* TranslateWithLang(lang, key), no args given
TranslateWithLang(lang, key) ==
    IF Found(lang, key) THEN translations[lang][key]
    ELSE IF lang # DefaultLanguage /\ Found(DefaultLanguage, key)
    THEN translations[DefaultLanguage][key]
    ELSE key

GetLanguage == currentLang

SetLanguage(lang) ==
    /\ currentLang' = lang
    /\ tlast' = [op |-> "SetLanguage", lang |-> lang]
    /\ UNCHANGED translations
    /\ UNCHANGED outsideI18n

GetLanguageCall ==
    /\ tlast' = [op |-> "GetLanguage", lang |-> GetLanguage]
    /\ UNCHANGED <<currentLang, translations>>
    /\ UNCHANGED outsideI18n

TranslateWithLangCall(lang, key) ==
    /\ tlast' = [op |-> "TranslateWithLang", lang |-> lang, key |-> key,
                 text |-> TranslateWithLang(lang, key)]
    /\ UNCHANGED <<currentLang, translations>>
    /\ UNCHANGED outsideI18n

\* Translate(key): t.TranslateWithLang(t.GetLanguage(), key)
Translate(key) ==
    /\ tlast' = [op |-> "Translate", lang |-> currentLang, key |-> key,
                 text |-> TranslateWithLang(GetLanguage, key)]
    /\ UNCHANGED <<currentLang, translations>>
    /\ UNCHANGED outsideI18n

LoadTranslations(dir) ==
    /\ \E r \in LoadFrom(translations, dir, 1) :
          /\ translations' = r.tr
          /\ tlast' = [op |-> "LoadTranslations", dir |-> dir, err |-> r.err,
                       pre |-> translations]
    /\ UNCHANGED currentLang
    /\ UNCHANGED outsideI18n

\* The files of the model.  Inner: the objects found under a key; EnglishFiles:
\* what en.json can be; ChineseFiles, JapaneseFiles: what zh.json and ja.json
\* can be
Inner(v) == JObject([k \in {"b"} |-> v])
TopValues(key) ==
    CASE key = "a.b" -> {JString("x")}
      [] key = "a" -> {JString("x"), Inner(JString("y"))}
      [] OTHER -> {Inner(JNumber(1))}
Objects == UNION {{o \in [NS -> UNION {TopValues(k) : k \in NS}] :
                      \A k \in NS : o[k] \in TopValues(k)} :
                  NS \in SUBSET {"", "a", "a.b"}}
EnglishFiles == {NoFile, NotJSON} \cup {JObject(o) : o \in Objects}
ChineseFiles == {NotJSON, JObject([k \in {"a"} |-> JString("z")])}
JapaneseFiles == {NoFile, JObject([k \in {"a"} |-> JString("j")])}
Dirs == {d \in [{LanguageEnglish, LanguageChinese, LanguageJapanese,
                 LanguageKorean} ->
                    EnglishFiles \cup ChineseFiles \cup JapaneseFiles] :
            /\ d[LanguageEnglish] \in EnglishFiles
            /\ d[LanguageChinese] \in ChineseFiles
            /\ d[LanguageJapanese] \in JapaneseFiles
            /\ d[LanguageKorean] = NoFile}
Langs == {LanguageEnglish, LanguageChinese, LanguageJapanese}
TextKeys == {"a", "a.b", "q"}

NextI18n ==
    \/ \E lang \in Langs : SetLanguage(lang)
    \/ GetLanguageCall
    \/ \E lang \in Langs, key \in TextKeys : TranslateWithLangCall(lang, key)
    \/ \E key \in TextKeys : Translate(key)
    \/ \E dir \in Dirs : LoadTranslations(dir)

-----------------------------------------------------------------------------
\* DefaultMetrics and its gRPC interceptor (package metrics)

Methods == {"/svc/A", "/svc/B"}
Statuses == {"success", "error"}
Responses == {"r1", "r2"}

\* The errors a handler returns: nil, a gRPC status error with its code, or
\* another error
Nil == [kind |-> "nil"]
StatusError(code) == [kind |-> "status", code |-> code]
OtherError == [kind |-> "other"]
Errors == {Nil, StatusError("NotFound"), OtherError}

\* status.Convert(err).Code().String()
CodeOf(err) == IF err.kind = "status" THEN err.code ELSE "Unknown"
Codes == {CodeOf(err) : err \in Errors \ {Nil}}

\* NewMetrics: no counter has counted, no histogram has observed
NewMetrics ==
    /\ grpcRequestsTotal = [l \in Methods \X Statuses |-> 0]
    /\ grpcRequestDuration = [method \in Methods |-> 0]
    /\ errorsTotal = [l \in {"grpc"} \X Codes |-> 0]
    /\ handled = 0
    /\ ipc = "idle"
    /\ iloc = NoCall
    /\ ilast = NoCall

\* CounterVec.WithLabelValues(...).Inc(), Histogram ... .Observe(...)
Inc(counter, labels) == [counter EXCEPT ![labels] = @ + 1]

\* StatusOf, with every request counted as a success
StatusAlwaysSuccess(err) == "success"

\* status := "success"; if err != nil { status = "error" }
StatusOf(err) == IF err # Nil THEN "error" ELSE "success"

RecordGRPCRequest(counter, method, err) ==
    Inc(counter, <<method, StatusOf(err)>>)

RecordGRPCDuration(histogram, method) == Inc(histogram, method)

RecordError(counter, errorType, errorCode) ==
    Inc(counter, <<errorType, errorCode>>)

\* The metrics, as a caller can read them
Metrics == [requests |-> grpcRequestsTotal, durations |-> grpcRequestDuration,
            errors |-> errorsTotal, handled |-> handled]

\* The interceptor is called: start := time.Now(); the handler is invoked
InterceptorCalls(method) ==
    /\ ipc = "idle"
    /\ handled < MaxRequests
    /\ ipc' = "handler"
    /\ handled' = handled + 1
    /\ iloc' = [method |-> method, pre |-> Metrics]
    /\ ilast' = NoCall
    /\ UNCHANGED <<grpcRequestsTotal, grpcRequestDuration, errorsTotal>>
    /\ UNCHANGED outsideMetrics

\* The handler returns resp, err: the interceptor records and returns them
HandlerReturns(resp, err) ==
    /\ ipc = "handler"
    /\ grpcRequestDuration' = RecordGRPCDuration(grpcRequestDuration, iloc.method)
    /\ grpcRequestsTotal' = RecordGRPCRequest(grpcRequestsTotal, iloc.method, err)
    /\ errorsTotal' = IF err # Nil
                      THEN RecordError(errorsTotal, "grpc", CodeOf(err))
                      ELSE errorsTotal
    /\ ilast' = [op |-> "Interceptor", method |-> iloc.method, pre |-> iloc.pre,
                 handlerResp |-> resp, handlerErr |-> err,
                 resp |-> resp, err |-> err]
    /\ ipc' = "idle"
    /\ iloc' = NoCall
    /\ UNCHANGED handled
    /\ UNCHANGED outsideMetrics

\* The handler panics: the interceptor is unwound and records nothing
HandlerPanics ==
    /\ ipc = "handler"
    /\ ipc' = "idle"
    /\ iloc' = NoCall
    /\ ilast' = NoCall
    /\ UNCHANGED <<grpcRequestsTotal, grpcRequestDuration, errorsTotal, handled>>
    /\ UNCHANGED outsideMetrics

NextMetrics ==
    \/ \E method \in Methods : InterceptorCalls(method)
    \/ \E resp \in Responses, err \in Errors : HandlerReturns(resp, err)
    \/ HandlerPanics

-----------------------------------------------------------------------------
\* PostgresStore.Close (package db)

maxRetries == 3

\* What the two Close of the repository give to closeFunc
ResourceLists == {<<"DB">>, <<"DB", "dbr session">>}

\* NewPostgresStore; rs: the resources its Close closes
NewPostgresStore(rs) ==
    /\ resources = rs
    /\ dbpc = "idle"
    /\ dbres = 0
    /\ dbtry = 0
    /\ errs = <<>>
    /\ attempts = [r \in {} |-> 0]
    /\ closed = {}
    /\ dblast = NoCall

\* Close is called: var errs []error; the first closeFunc
CloseCalled ==
    /\ dbpc = "idle"
    /\ dbpc' = "loop"
    /\ dbres' = 1
    /\ dbtry' = 0
    /\ errs' = <<>>
    /\ attempts' = [r \in {resources[k] : k \in DOMAIN resources} |-> 0]
    /\ closed' = {}
    /\ UNCHANGED <<resources, dblast>>
    /\ UNCHANGED outsideDb

\* From one closeFunc to the next, or to the end of Close
NextResource(k) == IF k < Len(resources) THEN "loop" ELSE "return"

\* InLoop, with one more round
InLoopOnceMore(i) == i <= maxRetries

\* for i := 0; i < maxRetries; i++
InLoop(i) == i < maxRetries

\* closer() returns nil: closeFunc returns
CloserSucceeds ==
    /\ dbpc = "loop"
    /\ InLoop(dbtry)
    /\ attempts' = [attempts EXCEPT ![resources[dbres]] = @ + 1]
    /\ closed' = closed \cup {resources[dbres]}
    /\ dbpc' = NextResource(dbres)
    /\ dbres' = dbres + 1
    /\ dbtry' = 0
    /\ UNCHANGED <<resources, errs, dblast>>
    /\ UNCHANGED outsideDb

\* closer() returns an error: time.Sleep, i++
CloserFails ==
    /\ dbpc = "loop"
    /\ InLoop(dbtry)
    /\ attempts' = [attempts EXCEPT ![resources[dbres]] = @ + 1]
    /\ dbtry' = dbtry + 1
    /\ UNCHANGED <<resources, dbpc, dbres, errs, closed, dblast>>
    /\ UNCHANGED outsideDb

\* The loop ends: errs = append(errs, "failed to close ...")
RetriesExhausted ==
    /\ dbpc = "loop"
    /\ ~InLoop(dbtry)
    /\ errs' = Append(errs, resources[dbres])
    /\ dbpc' = NextResource(dbres)
    /\ dbres' = dbres + 1
    /\ dbtry' = 0
    /\ UNCHANGED <<resources, attempts, closed, dblast>>
    /\ UNCHANGED outsideDb

\* if len(errs) > 0 { return fmt.Errorf(...) }; return nil
CloseReturns ==
    /\ dbpc = "return"
    /\ dbpc' = "idle"
    /\ dblast' = [op |-> "Close", err |-> Len(errs) > 0, errs |-> errs,
                  attempts |-> attempts, closed |-> closed]
    /\ UNCHANGED <<resources, dbres, dbtry, errs, attempts, closed>>
    /\ UNCHANGED outsideDb

\* A step of a running Close
CloseStep == CloserSucceeds \/ CloserFails \/ RetriesExhausted \/ CloseReturns

NextDb == CloseCalled \/ CloseStep

-----------------------------------------------------------------------------
\* Manager, its clients (package grpc)

\* The Config.Clients that NewManager may be given
Configs == UNION {[NS -> {"t1"}] : NS \in SUBSET Names}

\* NewManager(config): a ClientManager with AddClient called for every client
\* of config, and no Server yet
NewManagerWith(config) ==
    /\ configs = config
    /\ connections = <<>>
    /\ conns = <<>>
    /\ cpc = [g \in Goroutines |-> "idle"]
    /\ cloc = [g \in Goroutines |-> NoCall]
    /\ clast = NoCall
    /\ mconfig = config
    /\ added = DOMAIN config
    /\ removed = {}
    /\ msrv = NoServer
    /\ nsrv = 0
    /\ sstate = "none"
    /\ registered = {}
    /\ rpcs = 0
    /\ startpc = "idle"
    /\ spc = "idle"
    /\ sgo = "none"
    /\ sdone = FALSE
    /\ ctx = "background"
    /\ shist = [gs |-> FALSE, first |-> FALSE]
    /\ slast = NoCall

\* Manager.AddClient: m.clientManager.AddClient(name, config);
\* m.config.Clients[name] = config
ManagerAddClient(g, name, target) ==
    /\ cpc[g] = "idle"
    /\ configs' = MapPut(configs, name, target)
    /\ mconfig' = MapPut(mconfig, name, target)
    /\ added' = added \cup {name}
    /\ removed' = removed \ {name}
    /\ clast' = ClientReturned("AddClient", name, NoConn, FALSE, 0,
                               MapGet(connections, name),
                               StateOf(MapGet(connections, name)),
                               name \in DOMAIN configs)
    /\ UNCHANGED <<connections, conns, cpc, cloc>>
    /\ UNCHANGED <<serverVars, outsideManager>>

\* Manager.RemoveClient: err := m.clientManager.CloseClient(name);
\* delete(m.config.Clients, name); return err
ManagerRemoveClient(g, name) ==
    /\ cpc[g] = "idle"
    /\ LET conn == MapGet(connections, name)
       IN  IF name \notin DOMAIN connections
           THEN /\ clast' = ClientReturned("RemoveClient", name, NoConn, TRUE, 0,
                                           conn, StateOf(conn),
                                           name \in DOMAIN configs)
                /\ UNCHANGED <<connections, conns>>
           ELSE /\ conns' = CloseConn(conns, conn)
                /\ connections' = MapDelete(connections, name)
                /\ clast' = ClientReturned("RemoveClient", name, conn,
                                           CloseFails(conn), 0,
                                           conn, StateOf(conn),
                                           name \in DOMAIN configs)
    /\ mconfig' = MapDelete(mconfig, name)
    /\ removed' = removed \cup {name}
    /\ UNCHANGED <<configs, cpc, cloc, added>>
    /\ UNCHANGED <<serverVars, outsideManager>>

\* The calls of one goroutine on the clients of a Manager.  Manager.GetClient
\* and Manager.ListClients are the methods of its ClientManager
NextManager ==
    \/ \E name \in Names, t \in Targets : ManagerAddClient("g1", name, t)
    \/ \E name \in Names : ManagerRemoveClient("g1", name)
    \/ \E name \in Names : GetClientRead("g1", name)
    \/ GetClientState("g1")
    \/ GetClientDrop("g1")
    \/ CreateConnection("g1")
    \/ CreateConnectionError("g1")
    \/ GetClientStore("g1")
    \/ ListClients("g1")
    \/ \E c \in Created : CallerCloses("g1", c)
    \/ \E c \in Created : ConnChanges(c)

\* Manager.Close returns lastErr, with the error of CloseAll left out
CloseErrorOfStop(stopErr, closeFails) == stopErr

\* The lastErr of Manager.Close: the error of CloseAll if it has one, else
\* that of Server.Stop
CloseError(stopErr, closeFails) ==
    IF closeFails THEN "close error" ELSE stopErr

\* What Manager.Close returned.  server, held: the Server of the Manager and
\* the connections it stored when CloseAll began
CloseReturned(stopErr) ==
    [op |-> "Close", err |-> CloseError(stopErr, CloseAllFails),
     stopErr |-> stopErr, closeFails |-> CloseAllFails, server |-> msrv,
     held |-> Stored, first |-> shist.first, gs |-> shist.gs]

\* Manager.Close(ctx): without a Server, CloseAll and return; with one,
\* Server.Stop begins as in StopServer
CloseBegins(g, c) ==
    /\ cpc[g] = "idle"
    /\ spc = "idle"
    /\ sgo \in {"none", "exit"}
    /\ IF msrv = NoServer
       THEN /\ conns' = AllClosed
            /\ connections' = <<>>
            /\ configs' = <<>>
            /\ added' = {}
            /\ clast' = CloseReturned("nil")
            /\ UNCHANGED <<cpc, spc, sgo, sdone, ctx, shist, slast>>
       ELSE /\ spc' = "select"
            /\ sgo' = "spawned"
            /\ sdone' = FALSE
            /\ ctx' = c
            /\ shist' = [gs |-> FALSE, first |-> (c = "done")]
            /\ slast' = NoCall
            /\ cpc' = [cpc EXCEPT ![g] = "close"]
            /\ clast' = NoCall
            /\ UNCHANGED <<configs, connections, conns, added>>
    /\ UNCHANGED <<msrv, nsrv, sstate, registered, rpcs, startpc>>
    /\ UNCHANGED <<cloc, mconfig, removed, outsideManager>>

\* Manager.Close, Server.Stop takes case <-done and returns nil; CloseAll
CloseDoneCase(g) ==
    /\ cpc[g] = "close"
    /\ spc = "select"
    /\ sdone
    /\ spc' = "idle"
    /\ slast' = StopReturned("nil", FALSE)
    /\ conns' = AllClosed
    /\ connections' = <<>>
    /\ configs' = <<>>
    /\ added' = {}
    /\ clast' = CloseReturned("nil")
    /\ cpc' = [cpc EXCEPT ![g] = "idle"]
    /\ UNCHANGED <<msrv, nsrv, sstate, registered, rpcs, startpc, sgo, sdone, ctx,
                   shist>>
    /\ UNCHANGED <<cloc, mconfig, removed, outsideManager>>

\* Manager.Close, Server.Stop takes case <-ctx.Done(), stops the Server and
\* returns ctx.Err(); CloseAll
CloseCtxCase(g) ==
    /\ cpc[g] = "close"
    /\ spc = "select"
    /\ ctx = "done"
    /\ spc' = "idle"
    /\ sstate' = "stopped"
    /\ rpcs' = 0
    /\ slast' = StopReturned("ctx.Err()", TRUE)
    /\ conns' = AllClosed
    /\ connections' = <<>>
    /\ configs' = <<>>
    /\ added' = {}
    /\ clast' = CloseReturned("ctx.Err()")
    /\ cpc' = [cpc EXCEPT ![g] = "idle"]
    /\ UNCHANGED <<msrv, nsrv, registered, startpc, sgo, sdone, ctx, shist>>
    /\ UNCHANGED <<cloc, mconfig, removed, outsideManager>>

\* A Manager with a Server and the client "a": one goroutine makes its calls,
\* Manager.Close among them, while the Server serves
NextManagerClose ==
    \/ \E ok \in BOOLEAN : InitServer(ok)
    \/ StartServer
    \/ ServeReturns
    \/ RPCArrives
    \/ RPCEnds
    \/ \E c \in {"background", "live", "done"} : CloseBegins("g1", c)
    \/ GracefulStopBegins
    \/ GracefulStopReturns
    \/ CloseDone
    \/ CtxDone
    \/ CloseDoneCase("g1")
    \/ CloseCtxCase("g1")
    \/ ManagerAddClient("g1", "a", "t1")
    \/ GetClientRead("g1", "a")
    \/ GetClientState("g1")
    \/ GetClientDrop("g1")
    \/ CreateConnection("g1")
    \/ CreateConnectionError("g1")
    \/ GetClientStore("g1")
    \/ \E c \in Created : CallerCloses("g1", c)

-----------------------------------------------------------------------------
\* LoadConfig (package config), with the viper calls it makes

\* A key is the sequence of the names that lead to a value of the YAML file:
\* viper writes it with dots, server.host
KeyServerHost == <<"server", "host">>
KeyServerPort == <<"server", "port">>
ConfigKeys == {KeyServerHost, KeyServerPort}

\* strings.ToUpper of the names of the keys
ToUpper(name) ==
    CASE name = "server" -> "SERVER"
      [] name = "host" -> "HOST"
      [] name = "port" -> "PORT"
      [] OTHER -> name

\* The names of key, in upper case, joined by sep
RECURSIVE UpperJoin(_, _)
UpperJoin(key, sep) ==
    IF Len(key) = 1 THEN ToUpper(key[1])
    ELSE ToUpper(key[1]) \o sep \o UpperJoin(Tail(key), sep)

\* viper, mergeWithEnvPrefix of the key as written, with no key replacer set:
\* strings.ToUpper("VGO" + "_" + "server.host")
EnvKey(prefix, key) == prefix \o "_" \o UpperJoin(key, ".")

\* The variable that the claim and the test set for a key: VGO_SERVER_HOST
EnvVarOf(key) == "VGO" \o "_" \o UpperJoin(key, "_")

EnvNames == UNION {{EnvVarOf(key), "VGO" \o "_" \o UpperJoin(key, ".")} :
                   key \in ConfigKeys}
EnvValues == {"example.com"}
YAML(values) == [type |-> "yaml", values |-> values]
ConfigFiles == {YAML([k \in {KeyServerHost} |-> "localhost"]),
                YAML([k \in ConfigKeys |->
                         IF k = KeyServerHost THEN "localhost" ELSE "8080"]),
                YAML([k \in {KeyServerPort} |-> "8080"])}
NoViper == [type |-> "nil"]

\* Before LoadConfig is called
NoConfig(env, file) ==
    /\ osEnv = env
    /\ configFile = file
    /\ loaded = NoViper
    /\ cfglast = NoCall

\* os.Setenv, os.Unsetenv
Setenv(name, value) ==
    /\ osEnv' = MapPut(osEnv, name, value)
    /\ cfglast' = NoCall
    /\ UNCHANGED <<configFile, loaded>>
    /\ UNCHANGED outsideConfig

Unsetenv(name) ==
    /\ name \in DOMAIN osEnv
    /\ osEnv' = MapDelete(osEnv, name)
    /\ cfglast' = NoCall
    /\ UNCHANGED <<configFile, loaded>>
    /\ UNCHANGED outsideConfig

\* The file at configPath is written, or removed
WriteFile(file) ==
    /\ configFile' = file
    /\ cfglast' = NoCall
    /\ UNCHANGED <<osEnv, loaded>>
    /\ UNCHANGED outsideConfig

\* LoadConfig(configPath): AutomaticEnv, SetEnvPrefix("VGO"), ReadInConfig
LoadConfig ==
    /\ IF configFile = NoFile
       THEN /\ cfglast' = [op |-> "LoadConfig", err |-> TRUE]
            /\ UNCHANGED loaded
       ELSE /\ loaded' = [type |-> "viper", file |-> configFile.values]
            /\ cfglast' = [op |-> "LoadConfig", err |-> FALSE]
    /\ UNCHANGED <<osEnv, configFile>>
    /\ UNCHANGED outsideConfig

\* viper, getEnv: os.LookupEnv, an empty value taken for none
GetEnv(name) == IF name \in DOMAIN osEnv /\ osEnv[name] # ""
                THEN {osEnv[name]} ELSE {}

\* v.GetString(key) on the *viper.Viper of LoadConfig: the environment
\* variable of the key, else the value of the file, else ""
GetStringValue(key) ==
    IF GetEnv(EnvKey("VGO", key)) # {}
    THEN CHOOSE value \in GetEnv(EnvKey("VGO", key)) : TRUE
    ELSE IF key \in DOMAIN loaded.file THEN loaded.file[key]
    ELSE ""

GetString(key) ==
    /\ loaded # NoViper
    /\ cfglast' = [op |-> "GetString", key |-> key,
                   value |-> GetStringValue(key)]
    /\ UNCHANGED <<osEnv, configFile, loaded>>
    /\ UNCHANGED outsideConfig

NextConfig ==
    \/ \E name \in EnvNames, value \in EnvValues : Setenv(name, value)
    \/ \E name \in EnvNames : Unsetenv(name)
    \/ \E file \in ConfigFiles \cup {NoFile} : WriteFile(file)
    \/ LoadConfig
    \/ \E key \in ConfigKeys : GetString(key)

-----------------------------------------------------------------------------
\* InitLogger (package sentry)

\* DefaultSentryConfig, with the terminal left out
DefaultWithoutStdout ==
    [Directory |-> "./logs", Filename |-> "vgo.log", Stdout |-> FALSE,
     Enabled |-> FALSE, DSN |-> "your-sentry-dsn-here"]

\* DefaultSentryConfig; of Log: Directory, Filename, Stdout; of Sentry:
\* Enabled, DSN
DefaultSentryConfig ==
    [Directory |-> "./logs", Filename |-> "vgo.log", Stdout |-> TRUE,
     Enabled |-> FALSE, DSN |-> "your-sentry-dsn-here"]

NilConfig == [type |-> "nil"]
NilLogger == [type |-> "nil"]

\* The configurations InitLogger is given
SentryConfigs ==
    [Directory : {"", "./logs", "/var/log/vgo"}, Filename : {"", "vgo.log"},
     Stdout : BOOLEAN, Enabled : BOOLEAN, DSN : {"", "your-sentry-dsn-here"}]

\* Before InitLogger is called; w: the working directory is writable
NoLogger(w) ==
    /\ writable = w
    /\ logDirs = {}
    /\ sentryHub = FALSE
    /\ llast = NoCall

\* if cfg == nil { cfg = DefaultSentryConfig() }
ConfigOrDefault(cfg) == IF cfg = NilConfig THEN DefaultSentryConfig ELSE cfg

\* if cfg.Log.Directory != "" && cfg.Log.Filename != ""
FileOutput(cfg) == cfg.Directory # "" /\ cfg.Filename # ""

\* os.MkdirAll(dir) succeeds: the directory is there, or can be made
MkdirAllSucceeds(dir) == dir \in logDirs \/ writable

\* cores, after both outputs have been looked at
Cores(cfg) == (IF FileOutput(cfg) THEN <<"file">> ELSE <<>>)
              \o (IF cfg.Stdout THEN <<"stdout">> ELSE <<>>)

\* if cfg.Sentry.Enabled && cfg.Sentry.DSN != ""
WithSentry(cfg) == cfg.Enabled /\ cfg.DSN # ""

\* InitLogger(given); initOk: sentry.Init succeeds, if it is called
InitLogger(given, initOk) ==
    LET cfg == ConfigOrDefault(given)
        result(logger, err) ==
            [op |-> "InitLogger", given |-> given, cfg |-> cfg,
             logger |-> logger, err |-> err, couldMkdir |->
                 (~FileOutput(cfg) \/ MkdirAllSucceeds(cfg.Directory))]
    IN  /\ IF FileOutput(cfg) /\ ~MkdirAllSucceeds(cfg.Directory)
           THEN /\ llast' = result(NilLogger, "failed to create log directory")
                /\ UNCHANGED <<logDirs, sentryHub>>
           ELSE /\ logDirs' = IF FileOutput(cfg)
                              THEN logDirs \cup {cfg.Directory} ELSE logDirs
                /\ IF Len(Cores(cfg)) = 0
                   THEN /\ llast' = result(NilLogger, "no log output configured")
                        /\ UNCHANGED sentryHub
                   ELSE IF WithSentry(cfg) /\ ~initOk
                   THEN /\ llast' = result(NilLogger,
                                           "sentry initialization failed")
                        /\ UNCHANGED sentryHub
                   ELSE /\ llast' = result([type |-> "logger",
                                            cores |-> Cores(cfg),
                                            hub |-> WithSentry(cfg)], "nil")
                        /\ sentryHub' = (sentryHub \/ WithSentry(cfg))
        /\ UNCHANGED writable
        /\ UNCHANGED outsideSentry

\* The working directory is made read-only, or writable
Chmod ==
    /\ writable' = ~writable
    /\ llast' = NoCall
    /\ UNCHANGED <<logDirs, sentryHub>>
    /\ UNCHANGED outsideSentry

NextSentry ==
    \/ \E given \in SentryConfigs \cup {NilConfig}, initOk \in BOOLEAN :
          InitLogger(given, initOk)
    \/ Chmod

\* The server interceptors of NewServer (package grpc)

\* The two kinds of server interceptor
Interceptors == {"unary", "stream"}

\* What a handler returns: a unary one a response and an error, a stream one
\* an error
NoResp == "nil"
HandlerResults(which) ==
    IF which = "unary"
    THEN [resp : Responses, err : {Nil}] \cup [resp : {NoResp}, err : Errors \ {Nil}]
    ELSE [resp : {NoResp}, err : Errors]

\* The options: WithRecoveryInterceptor, WithLoggingInterceptor, and
\* WithCustomUnaryInterceptor / WithCustomStreamInterceptor of two interceptors
CustomInterceptors == {"custom1", "custom2"}
InterceptorOptions == {"recovery", "logging"} \cup CustomInterceptors

\* The lists of options NewServer is given: any options, each once, any order
OptionLists ==
    {opts \in UNION {[1..n -> InterceptorOptions] :
                        n \in 0..Cardinality(InterceptorOptions)} :
        \A i, j \in DOMAIN opts : opts[i] = opts[j] => i = j}

\* for _, opt := range interceptors { opt(interceptorConfig) }
ApplyOptions(opts) ==
    [RecoveryInterceptor |-> \E i \in DOMAIN opts : opts[i] = "recovery",
     LoggingInterceptor |-> \E i \in DOMAIN opts : opts[i] = "logging",
     CustomInterceptors |->
        SelectSeq(opts, LAMBDA opt : opt \in CustomInterceptors)]

\* ChainOf, with the logging interceptor appended before the recovery one
ChainLoggingFirst(config) ==
    (IF config.LoggingInterceptor THEN <<"logging">> ELSE <<>>)
        \o (IF config.RecoveryInterceptor THEN <<"recovery">> ELSE <<>>)
        \o config.CustomInterceptors

\* The appends of NewServer: recovery, logging, then the custom interceptors
ChainOf(config) ==
    (IF config.RecoveryInterceptor THEN <<"recovery">> ELSE <<>>)
        \o (IF config.LoggingInterceptor THEN <<"logging">> ELSE <<>>)
        \o config.CustomInterceptors

\* NewServer(config, logger, interceptors...): grpc.ChainUnaryInterceptor and
\* grpc.ChainStreamInterceptor of the chain, whose first is the outermost
NewServerWith(opts) ==
    /\ interceptors = [options |-> opts, chain |-> ChainOf(ApplyOptions(opts))]
    /\ chcall = NoCall
    /\ chlast = NoCall

\* The handler comes after the last interceptor
HandlerAt == Len(interceptors.chain) + 1

\* codes.Internal, "internal server error"
InternalError == [resp |-> NoResp, err |-> StatusError("Internal")]

\* A call arrives: the outermost interceptor is called, or the handler
ChainCalled(which) ==
    /\ chcall = NoCall
    /\ chcall' = [op |-> which, at |-> 1, mode |-> "call", result |-> NoCall,
                  raised |-> {}]
    /\ chlast' = NoCall
    /\ UNCHANGED interceptors
    /\ UNCHANGED outsideChain

\* The interceptor the call is in calls handler(...): the next of the chain
CallsNext ==
    /\ chcall # NoCall
    /\ chcall.mode = "call"
    /\ chcall.at < HandlerAt
    /\ chcall' = [chcall EXCEPT !.at = @ + 1]
    /\ UNCHANGED <<interceptors, chlast>>
    /\ UNCHANGED outsideChain

\* The handler returns
ChainHandlerReturns(result) ==
    /\ chcall # NoCall
    /\ chcall.mode = "call"
    /\ chcall.at = HandlerAt
    /\ chcall' = [chcall EXCEPT !.at = @ - 1, !.mode = "return",
                                !.result = result]
    /\ UNCHANGED <<interceptors, chlast>>
    /\ UNCHANGED outsideChain

\* The handler, the logging interceptor or a custom interceptor panics,
\* before or after its own call of handler(...)
Panics ==
    /\ chcall # NoCall
    /\ chcall.mode \in {"call", "return"}
    /\ chcall.at >= 1
    /\ chcall.at < HandlerAt => interceptors.chain[chcall.at] # "recovery"
    /\ chcall' = [chcall EXCEPT
            !.at = @ - 1, !.mode = "panic", !.result = NoCall,
            !.raised = @ \cup {IF chcall.at = HandlerAt THEN "handler"
                               ELSE interceptors.chain[chcall.at]}]
    /\ UNCHANGED <<interceptors, chlast>>
    /\ UNCHANGED outsideChain

\* An interceptor gets the return of its handler(...) and returns it; in the
\* recovery interceptor the deferred function finds nothing to recover
InterceptorReturns ==
    /\ chcall # NoCall
    /\ chcall.mode = "return"
    /\ chcall.at >= 1
    /\ chcall' = [chcall EXCEPT !.at = @ - 1]
    /\ UNCHANGED <<interceptors, chlast>>
    /\ UNCHANGED outsideChain

\* The panic unwinds an interceptor: the deferred function of the recovery
\* interceptor recovers and sets err, any other interceptor is left
Unwinds ==
    /\ chcall # NoCall
    /\ chcall.mode = "panic"
    /\ chcall.at >= 1
    /\ IF interceptors.chain[chcall.at] = "recovery"
       THEN chcall' = [chcall EXCEPT !.at = @ - 1, !.mode = "return",
                                     !.result = InternalError]
       ELSE chcall' = [chcall EXCEPT !.at = @ - 1]
    /\ UNCHANGED <<interceptors, chlast>>
    /\ UNCHANGED outsideChain

\* The chain is left: with what the outermost interceptor returns, or by the
\* panic
ChainReturns ==
    /\ chcall # NoCall
    /\ chcall.at = 0
    /\ chlast' = [op |-> chcall.op, raised |-> chcall.raised,
                  panicked |-> chcall.mode = "panic", result |-> chcall.result]
    /\ chcall' = NoCall
    /\ UNCHANGED interceptors
    /\ UNCHANGED outsideChain

NextChain ==
    \/ \E which \in Interceptors : ChainCalled(which)
    \/ CallsNext
    \/ \E result \in HandlerResults(chcall.op) : ChainHandlerReturns(result)
    \/ Panics
    \/ InterceptorReturns
    \/ Unwinds
    \/ ChainReturns

\* The packages beside ratelimit and grpc, each as its constructor leaves it,
\* but for the package named
NewKit(used) ==
    /\ used # "i18n" => NewTranslator(DefaultLanguage)
    /\ NewMetrics
    /\ used # "db" => NewPostgresStore(<<"DB">>)
    /\ used # "config" => NoConfig(<<>>, NoFile)
    /\ used # "sentry" => NoLogger(TRUE)
    /\ used # "chain" => NewServerWith(<<>>)

-----------------------------------------------------------------------------
\* The rate-limit gRPC interceptors (package ratelimit).  An interceptor
\* keeps nothing but its config, so that each request brings the config of
\* the interceptor it went through.

Peers == {"p1", "p2"}

\* ctx and info of a request: the method called and the address of the peer
Calls == {call \in [method : Methods, peer : Peers] :
            call.method = "/svc/A" \/ call.peer = "p1"}

\* DefaultKeyFunc: "ip:" and the address of the peer; Keys names these keys
DefaultKeyFunc(call) == IF call.peer = "p1" THEN "k1" ELSE "k2"

\* MethodKeyFunc: "method:" and info.FullMethod
MethodKeyFunc(call) == IF call.method = "/svc/A" THEN "k1" ELSE "k2"

\* DefaultSkipFunc skips no request
DefaultSkipFunc(call) == FALSE

\* WhitelistSkipFunc(methods): methodSet[info.FullMethod]
WhitelistSkipFunc(methods, call) == call.method \in methods

\* An InterceptorConfig: a KeyFunc and a SkipFunc, or nil for them
NilFunc == "nil"
InterceptorConfigs ==
    {[KeyFunc |-> NilFunc, SkipFunc |-> NilFunc],
     [KeyFunc |-> "MethodKeyFunc", SkipFunc |-> "WhitelistSkipFunc"]}

\* if config.KeyFunc == nil { config.KeyFunc = DefaultKeyFunc }
KeyFunc(config, call) ==
    IF config.KeyFunc = NilFunc THEN DefaultKeyFunc(call)
    ELSE MethodKeyFunc(call)

\* if config.SkipFunc == nil { config.SkipFunc = DefaultSkipFunc }
SkipFunc(config, call) ==
    IF config.SkipFunc = NilFunc THEN DefaultSkipFunc(call)
    ELSE WhitelistSkipFunc({"/svc/B"}, call)

\* The locals of the interceptor as it is entered
Entered(which, config, call, skipped, key) ==
    [op |-> which, config |-> config, call |-> call, skipped |-> skipped,
     key |-> key, allow |-> NoCall, calls |-> ncalls, handlers |-> 0]

\* The interceptor has returned result, fromHandler being what its handler had
\* returned; it has called Allow as many times as the limiter has been called
\* since it was entered
Intercepted(loc, fromHandler, result, now) ==
    [op |-> loc.op, config |-> loc.config, call |-> loc.call,
     skipped |-> loc.skipped, key |-> loc.key, allow |-> loc.allow,
     allows |-> now - loc.calls, handlers |-> loc.handlers,
     handled |-> fromHandler, resp |-> result.resp, err |-> result.err]

\* AllowFailed, with the error of the limiter never looked at
AllowNeverFailed(l) == FALSE

\* if err != nil
AllowFailed(l) == l.err

\* NotAllowed, with every request let through
NotAllowedNever(l) == FALSE

\* if !allowed
NotAllowed(l) == ~l.allowed

\* status.Errorf(codes.ResourceExhausted, ...)
RateLimitExceeded == [resp |-> NoResp, err |-> StatusError("ResourceExhausted")]

\* Allow has returned l: the handler is called, or the request is refused
AllowReturned(loc, l) ==
    LET seen == [loc EXCEPT !.allow = [op |-> l.op, key |-> l.key, n |-> l.n,
                                       allowed |-> l.allowed, err |-> l.err]]
    IN  IF AllowFailed(l) \/ ~NotAllowed(l)
        THEN /\ rlpc' = "handler"
             /\ rlloc' = [seen EXCEPT !.handlers = @ + 1]
             /\ rllast' = NoCall
        ELSE /\ rlpc' = "idle"
             /\ rlloc' = NoCall
             /\ rllast' = Intercepted(seen, NoCall, RateLimitExceeded, ncalls')

\* if config.SkipFunc(ctx, info) { return handler(ctx, req) }
InterceptorSkips(which, config, call) ==
    /\ rlpc = "idle"
    /\ SkipFunc(config, call)
    /\ rlpc' = "handler"
    /\ rlloc' = [Entered(which, config, call, TRUE, "") EXCEPT !.handlers = 1]
    /\ rllast' = NoCall
    /\ UNCHANGED <<rlVars, redisVars, memVars, shadow, last, ncalls>>
    /\ UNCHANGED outsideLimiter

\* key := config.KeyFunc(ctx, info); config.RateLimiter.Allow(ctx, key), of a
\* MemoryRateLimiter
InterceptorAllowsMemory(which, config, call) ==
    /\ rlpc = "idle"
    /\ ~SkipFunc(config, call)
    /\ LET key == KeyFunc(config, call)
       IN  /\ MemoryAllowNCall(key, 1, "Allow")
           /\ AllowReturned(Entered(which, config, call, FALSE, key), last')

\* The same of a RedisRateLimiter: the script is sent
InterceptorAllowsRedis(which, config, call) ==
    /\ rlpc = "idle"
    /\ ~SkipFunc(config, call)
    /\ LET key == KeyFunc(config, call)
       IN  /\ RedisAllowNCall("c1", key, 1, "Allow")
           /\ rlpc' = "allow"
           /\ rlloc' = Entered(which, config, call, FALSE, key)
           /\ rllast' = NoCall

\* Allow of the RedisRateLimiter returns, with the reply or with an error
InterceptorAllowReplies ==
    /\ rlpc = "allow"
    /\ RedisAllowNReply("c1") \/ RedisEvalFails("c1")
    /\ AllowReturned(rlloc, last')

\* return handler(ctx, req), return handler(srv, ss)
InterceptorHandlerReturns(result) ==
    /\ rlpc = "handler"
    /\ rlpc' = "idle"
    /\ rlloc' = NoCall
    /\ rllast' = Intercepted(rlloc, result, result, ncalls)
    /\ UNCHANGED <<rlVars, redisVars, memVars, shadow, last, ncalls>>
    /\ UNCHANGED outsideLimiter

\* UnaryServerInterceptor and StreamServerInterceptor at work on one limiter
NextInterceptor ==
    \/ Tick
    \/ \E k \in Keys : RedisExpire(k)
    \/ \E which \in Interceptors, config \in InterceptorConfigs, call \in Calls :
          \/ InterceptorSkips(which, config, call)
          \/ InterceptorAllowsMemory(which, config, call)
          \/ InterceptorAllowsRedis(which, config, call)
    \/ InterceptorAllowReplies
    \/ \E result \in HandlerResults(rlloc.op) : InterceptorHandlerReturns(result)

-----------------------------------------------------------------------------
\* The limiter in use: of either type, its calls made from one client, on any key

\* NewRateLimiter: the limiter is of one type, made empty
NewRateLimiter(types) ==
    /\ kind \in types
    /\ clock = 0
    /\ limit \in 0..MaxLimit
    /\ window \in 1..MaxWindow
    /\ ncalls = 0
    /\ zset = [k \in Keys |-> {}]
    /\ rexpire = [k \in Keys |-> NoTTL]
    /\ rpend = [c \in Clients |-> NoCall]
    /\ racc = [k \in Keys |-> ZeroAcc]
    /\ mreq = <<>>
    /\ macc = [k \in Keys |-> ZeroAcc]
    /\ shadow = [z |-> [k \in Keys |-> {}], ttl |-> [k \in Keys |-> NoTTL],
                 m |-> <<>>, allowed |-> FALSE]
    /\ last = NoCall
    /\ rlpc = "idle"
    /\ rlloc = NoCall
    /\ rllast = NoCall
    /\ mpc = [g \in Goroutines |-> "idle"]
    /\ mloc = [g \in Goroutines |-> NoCall]
    /\ mfatal = FALSE

NextRedis(CS, KS) ==
    \/ \E c \in CS, k \in KS, n \in 1..MaxN : RedisAllowN(c, k, n)
    \/ \E c \in CS, k \in KS : RedisAllow(c, k)
    \/ \E c \in CS : RedisAllowNEval(c)
    \/ \E c \in CS : RedisEvalError(c)
    \/ \E c \in CS, k \in KS : RedisGetRemaining(c, k)
    \/ \E c \in CS : RedisGetRemainingEval(c)
    \/ \E c \in CS, k \in KS : RedisReset(c, k)
    \/ \E k \in KS : RedisExpire(k)

NextMemory ==
    \/ \E k \in Keys, n \in 1..MaxN : MemoryAllowN(k, n)
    \/ \E k \in Keys : MemoryAllow(k)
    \/ \E k \in Keys : MemoryGetRemaining(k)
    \/ \E k \in Keys : MemoryReset(k)

NextLimiter ==
    \/ Tick
    \/ NextRedis({"c1"}, Keys)
    \/ NextMemory

\* Two Redis clients at once on one key
NextRedisConc ==
    \/ Tick
    \/ NextRedis(Clients, {"k1"})

vars == <<limiterVars, grpcVars, kitVars>>

\* The program after construction: a limiter of one of the kinds, and a Manager
Init(types) == NewRateLimiter(types) /\ NewManager /\ NewKit("")

Spec == Init({"redis", "memory"}) /\ [][NextLimiter]_vars

SpecRedisConc == Init({"redis"}) /\ [][NextRedisConc]_vars

SpecMemoryConc == Init({"memory"}) /\ [][NextMemoryConc]_vars

\* A limiter with a window of one second behind the rate-limit interceptors
InitInterceptor == Init({"redis", "memory"}) /\ window = 1

\* Requests go through the rate-limit interceptors of a limiter
SpecInterceptor == InitInterceptor /\ [][NextInterceptor]_vars

\* The limiter left alone
NoLimiter ==
    /\ NewRateLimiter({"memory"})
    /\ limit = 0
    /\ window = 1
    /\ NewManager

\* A Manager with the default Config, the rest left alone
OnlyGrpc == NoLimiter /\ NewKit("")

\* One goroutine uses the ClientManager
SpecClient == OnlyGrpc /\ [][NextClient({"g1"}, Names)]_vars

\* Several goroutines use the ClientManager, for one name
SpecClientConc == OnlyGrpc /\ [][NextClient(Goroutines, {"a"})]_vars

\* The Server of a Manager
SpecServer == OnlyGrpc /\ [][NextServer]_vars

\* The limiter left alone, and a Manager made with some Config
InitManager ==
    /\ NewRateLimiter({"memory"})
    /\ limit = 0
    /\ window = 1
    /\ \E config \in Configs : NewManagerWith(config)
    /\ NewKit("")

\* One goroutine uses the clients of a Manager
SpecManager == InitManager /\ [][NextManager]_vars

\* One goroutine uses and closes a Manager whose Server serves
SpecManagerClose == InitManager /\ [][NextManagerClose]_vars

\* A translator made for some language, the rest left alone
InitI18n ==
    /\ NoLimiter
    /\ NewKit("i18n")
    /\ \E lang \in Langs : NewTranslator(lang)

\* The calls on a translator
SpecI18n == InitI18n /\ [][NextI18n]_vars

\* The gRPC interceptor of a DefaultMetrics
SpecMetrics == OnlyGrpc /\ [][NextMetrics]_vars

\* A PostgresStore, the rest left alone
InitDb ==
    /\ NoLimiter
    /\ NewKit("db")
    /\ \E rs \in ResourceLists : NewPostgresStore(rs)

\* PostgresStore.Close, whose goroutine goes on while it can
SpecDb == InitDb /\ [][NextDb]_vars /\ WF_vars(CloseStep)

\* A process with some environment and some file at configPath
InitConfig ==
    /\ NoLimiter
    /\ NewKit("config")
    /\ \E file \in ConfigFiles \cup {NoFile} : NoConfig(<<>>, file)

SpecConfig == InitConfig /\ [][NextConfig]_vars

\* A process whose working directory may be read-only
InitSentry ==
    /\ NoLimiter
    /\ NewKit("sentry")
    /\ \E w \in BOOLEAN : NoLogger(w)

SpecSentry == InitSentry /\ [][NextSentry]_vars

\* A Server made by NewServer with some options
InitChain ==
    /\ NoLimiter
    /\ NewKit("chain")
    /\ \E opts \in OptionLists : NewServerWith(opts)

SpecChain == InitChain /\ [][NextChain]_vars

\* The same, with the goroutines of Server.Stop scheduled: a goroutine that can
\* run does run
SpecServerFair ==
    /\ SpecServer
    /\ WF_vars(StopSelect)
    /\ WF_vars(CloseDone)

-----------------------------------------------------------------------------
\* What the claims speak about

\* The stamps of a stored state that lie inside the window ending at now
StampsOf(l) ==
    IF l.impl = "redis" THEN {<<e.m, e.s>> : e \in l.pre}
    ELSE {<<i, l.pre[i]>> : i \in 1..Len(l.pre)}

InWindowBefore(l) ==
    Cardinality({e \in StampsOf(l) : e[2] > l.now - window})

InWindowStored(key, now) ==
    IF kind = "redis"
    THEN Cardinality({e \in zset[key] : e.s > now - window})
    ELSE Cardinality({i \in 1..Len(Requests(mreq, key)) :
                        Requests(mreq, key)[i] > now - window})

RECURSIVE SumUpTo(_, _)
SumUpTo(f, t) == IF t < 0 THEN 0 ELSE f[t] + SumUpTo(f, t - 1)

\* The events accepted for a key (since its last Reset) and inside the window
AcceptedInWindow(acc, key) ==
    SumUpTo([t \in Times |-> IF t > clock - window THEN acc[key][t] ELSE 0],
            MaxTime)

IsAllow(l) == l.op \in {"AllowN", "Allow"} /\ ~l.err

\* C1: in both limiters a call of AllowN(key, n), n >= 1, is rejected exactly
\* when the key's events still inside the window, plus n, exceed the limit, and
\* is accepted otherwise; Allow(key) is AllowN(key, 1).
C1_AdmissionRule ==
    IsAllow(last) =>
        /\ last.allowed = ~(InWindowBefore(last) + last.n > limit)
        /\ last.op = "Allow" => last.n = 1

\* A Redis call rejected with an expired event dropped and another one counted
C1_Witness ==
    /\ IsAllow(last) /\ last.impl = "redis" /\ ~last.allowed
    /\ last.n <= limit
    /\ \E e \in last.pre : e.s <= last.now - window
    /\ \E e \in last.pre : e.s > last.now - window

\* The same in the memory limiter, accepted with events of the window counted
C1_WitnessMemory ==
    /\ IsAllow(last) /\ last.impl = "memory" /\ last.allowed
    /\ \E i \in 1..Len(last.pre) : last.pre[i] <= last.now - window
    /\ \E i \in 1..Len(last.pre) : last.pre[i] > last.now - window

\* C2: an accepted AllowN(key, n) of the Redis limiter records n events: the
\* key's count inside the window is the count before the call plus n.
C2_AcceptedCallRecordsN ==
    (IsAllow(last) /\ last.impl = "redis" /\ last.allowed) =>
        InWindowStored(last.key, last.now) = InWindowBefore(last) + last.n

\* C3: in the memory limiter, with calls made one after the other, the events
\* accepted for a key and inside the window ending now never exceed the limit.
C3_MemoryWindowBound ==
    kind = "memory" =>
        \A k \in Keys :
            /\ InWindowStored(k, clock) <= limit
            /\ AcceptedInWindow(macc, k) <= limit

\* A key at its limit, with events of two different seconds, refusing a call
C3_Witness ==
    /\ kind = "memory" /\ limit >= 2
    /\ IsAllow(last) /\ ~last.allowed /\ last.n = 1
    /\ InWindowStored(last.key, clock) = limit
    /\ AcceptedInWindow(macc, last.key) = limit
    /\ \E i, j \in 1..Len(mreq[last.key]) : mreq[last.key][i] # mreq[last.key][j]

\* C4: the events accepted by the Redis limiter for a key inside one window
\* never exceed the limit, also with several clients calling at once.
C4_AcceptedWithinLimit ==
    kind = "redis" => \A k \in Keys : AcceptedInWindow(racc, k) <= limit

\* C5: with AllowN, GetRemaining and Reset called from several goroutines on
\* one MemoryRateLimiter, a mutex makes the calls run one at a time, so that
\* the count of a key inside the window never exceeds the limit.  (The struct
\* has no mutex to state anything about: the formula is the bound.)
C5_ConcurrentCallsKeepBound ==
    \A k \in Keys : InWindowStored(k, clock) <= limit

\* C7: connections are made lazily and reused.  AddClient creates none; a
\* GetClient for a name without config returns an error and creates none; with
\* a stored connection that is not in SHUTDOWN it returns that connection and
\* creates none; otherwise, when it succeeds, it has created exactly one
\* connection, stored it and dropped the one found in SHUTDOWN.
C7_LazyAndReused ==
    /\ clast.op = "AddClient" => clast.made = 0
    /\ clast.op = "GetClient" =>
        /\ ~clast.configured => clast.err /\ clast.made = 0
        /\ (clast.configured /\ clast.hadState \notin {"none", "SHUTDOWN"}) =>
              ~clast.err /\ clast.conn = clast.had /\ clast.made = 0
        /\ (clast.configured /\ clast.hadState \in {"none", "SHUTDOWN"}
                /\ ~clast.err) =>
              /\ clast.made = 1
              /\ clast.conn # clast.had
              /\ clast.conn \in Open
              /\ MapGet(connections, clast.name) = clast.conn
        /\ clast.hadState = "SHUTDOWN" =>
              \A name \in DOMAIN connections : connections[name] # clast.had
        /\ clast.err => clast.made = 0 /\ clast.conn = NoConn

\* GetClient has found the stored connection in SHUTDOWN and made a new one
C7_Witness ==
    /\ clast.op = "GetClient" /\ ~clast.err
    /\ clast.hadState = "SHUTDOWN" /\ clast.made = 1
    /\ MapGet(connections, clast.name) = clast.conn

\* A later GetClient has returned the stored connection
C7_WitnessReuse ==
    /\ clast.op = "GetClient" /\ ~clast.err
    /\ clast.hadState = "READY" /\ clast.conn = clast.had /\ clast.made = 0

\* C8: no connection is leaked, also with GetClient, CloseClient and CloseAll
\* called from several goroutines: a connection created and not closed is in
\* the connections map (or in the hands of the GetClient about to store it).
C8_NoConnectionLeaked ==
    \A c \in Open :
        \/ \E name \in DOMAIN connections : connections[name] = c
        \/ \E g \in Goroutines : cpc[g] = "store" /\ cloc[g].new = c

\* C6: in the memory limiter with limit >= 1, once every event of a key is W or
\* more old (an event stamped exactly now - W included), Allow(key) is accepted
\* and GetRemaining(key) returns the limit.
C6_ExpiredEventsFreeTheKey ==
    (/\ last.op # "none" /\ last.impl = "memory" /\ limit >= 1
     /\ \A i \in 1..Len(last.pre) : last.pre[i] + window <= last.now) =>
        /\ last.op = "Allow" => last.allowed
        /\ last.op = "GetRemaining" => last.remaining = limit

\* GetRemaining on a key that was at its limit, its newest event exactly W old
C6_Witness ==
    /\ last.op = "GetRemaining" /\ last.impl = "memory" /\ limit >= 1
    /\ Len(last.pre) = limit
    /\ \A i \in 1..Len(last.pre) : last.pre[i] + window <= last.now
    /\ \E i \in 1..Len(last.pre) : last.pre[i] + window = last.now
    /\ last.remaining = limit

\* Allow on such a key
C6_WitnessAllow ==
    /\ last.op = "Allow" /\ last.impl = "memory" /\ limit >= 1
    /\ Len(last.pre) = limit
    /\ \E i \in 1..Len(last.pre) : last.pre[i] + window = last.now
    /\ last.allowed

\* Server.Stop has just returned, on a Manager with a Server
StopHasReturned == slast.op = "StopServer" /\ slast.pre.server # NoServer

\* C9, as stated: Server.Stop returns nil only after GracefulStop has completed,
\* and when ctx was done before GracefulStop completed, Server.Stop has stopped
\* the Server and returns the error of ctx
C9_CtxDoneFirstForcesStop ==
    StopHasReturned =>
        /\ slast.err = "nil" => slast.gs
        /\ slast.first => slast.forced /\ slast.err = "ctx.Err()"

\* Server.Stop returns nil only after GracefulStop has completed and done is
\* closed; it returns an error only when ctx is done, the error is that of ctx
\* and the Server has been stopped before; it does so whenever ctx is done and
\* done is not closed as the select chooses
C9_StopSafety ==
    StopHasReturned =>
        /\ slast.err = "nil" => slast.gs /\ slast.closed /\ ~slast.forced
        /\ slast.err # "nil" =>
              /\ slast.err = "ctx.Err()"
              /\ slast.ctxDone
              /\ slast.forced
              /\ sstate = "stopped"
        /\ slast.ctxDone /\ ~slast.closed => slast.forced

\* Once ctx is done or GracefulStop has completed, Server.Stop returns
C9_StopReturns ==
    (spc = "select" /\ (ctx = "done" \/ shist.gs)) ~> (spc = "idle")

\* C9, amended: Server.Stop returns nil only after GracefulStop has completed;
\* it returns an error only when ctx is done, and then it has stopped the Server
\* and the error is that of ctx; when ctx is done and done is not yet closed it
\* takes that path, when both are ready it may take either; once ctx is done or
\* GracefulStop has completed, Server.Stop returns
C9_StopWithTimeout == []C9_StopSafety /\ C9_StopReturns

\* Server.Stop has stopped a Server that GracefulStop was waiting on
C9_Witness ==
    /\ StopHasReturned
    /\ slast.forced
    /\ slast.first
    /\ ~slast.gs
    /\ sgo = "graceful"

\* Server.Stop has returned nil although ctx was done before GracefulStop
\* completed
C9_WitnessNilAfterCtxDone ==
    /\ StopHasReturned
    /\ slast.first
    /\ slast.err = "nil"

\* C10: StartServer and RegisterService without a Server return an error and
\* start and register nothing; InitServer on a Manager with a Server returns
\* an error and leaves the Server as it is; an InitServer that fails leaves
\* the Manager without a Server, one that succeeds gives it a new one;
\* StopServer without a Server returns nil and stops nothing
C10_InitializedBeforeUse ==
    /\ slast.op \in {"StartServer", "RegisterService"}
         /\ slast.pre.server = NoServer
       => slast.err # "nil" /\ Snapshot = slast.pre
    /\ slast.op = "InitServer" /\ slast.pre.server # NoServer
       => slast.err # "nil" /\ Snapshot = slast.pre
    /\ slast.op = "InitServer" /\ slast.pre.server = NoServer
       => IF slast.err # "nil"
          THEN Snapshot = slast.pre
          ELSE msrv # NoServer /\ sstate = "new" /\ registered = {}
    /\ slast.op = "StopServer" /\ slast.pre.server = NoServer
       => slast.err = "nil" /\ Snapshot = slast.pre /\ sgo = slast.go
    /\ msrv = NoServer => sstate = "none" /\ registered = {} /\ spc = "idle"

\* InitServer has been refused on a Manager whose Server is serving
C10_Witness ==
    /\ slast.op = "InitServer"
    /\ slast.pre.server # NoServer
    /\ slast.err = "already initialized"
    /\ sstate = "serving"
    /\ registered # {}

\* StartServer has been refused on a Manager without a Server
C10_WitnessStart ==
    /\ slast.op = "StartServer"
    /\ slast.pre.server = NoServer
    /\ slast.err = "not initialized"

\* The names of a slice
Range(s) == {s[i] : i \in DOMAIN s}

\* C11: once RemoveClient(name) has returned and until AddClient(name, ...) is
\* called, ListClients does not contain name and GetClient(name) returns an
\* error and creates no connection
C11_RemovedClientIsGone ==
    /\ clast.op = "ListClients" => Range(clast.names) \cap removed = {}
    /\ clast.op = "GetClient" /\ clast.name \in removed
       => clast.err /\ clast.made = 0 /\ clast.conn = NoConn
    /\ clast.op = "RemoveClient" => clast.name \notin ConfigNames

\* C13: ListClients returns the names of the Config given to NewManager and
\* those given to AddClient, each once, whether or not a name has a connection
C13_ListClientsIsTheConfigured ==
    /\ ConfigNames = added
    /\ clast.op = "ListClients"
       => /\ Range(clast.names) = added
          /\ Len(clast.names) = Cardinality(added)

\* ListClients has returned two names, one from the Config given to NewManager
\* and without a connection, one given to AddClient and with a connection
C13_Witness ==
    /\ clast.op = "ListClients"
    /\ Len(clast.names) = 2
    /\ DOMAIN connections # {}
    /\ DOMAIN connections # DOMAIN configs
    /\ \E name \in ConfigNames : configs[name] = "t2"
    /\ \E name \in ConfigNames : mconfig[name] = "t1"

\* C12: when Manager.Close has returned, the Server, if the Manager has one, is
\* stopped, every connection the Manager held is closed and none is stored,
\* also when Server.Stop returned an error; Close returns nil only if neither
\* Server.Stop nor CloseAll failed, else the error of CloseAll if it failed
\* and that of Server.Stop if not
C12_CloseCleansUp ==
    clast.op = "Close" =>
        /\ clast.server # NoServer => sstate = "stopped"
        /\ \A c \in clast.held : conns[c].state = "SHUTDOWN"
        /\ connections = <<>>
        /\ Open = {}
        /\ clast.err = "nil" <=> clast.stopErr = "nil" /\ ~clast.closeFails
        /\ clast.closeFails => clast.err = "close error"
        /\ ~clast.closeFails => clast.err = clast.stopErr

\* Manager.Close has closed an open connection although Server.Stop, cut
\* short by ctx while the Server handled a call, returned an error
C12_Witness ==
    /\ clast.op = "Close"
    /\ clast.server # NoServer
    /\ clast.stopErr = "ctx.Err()"
    /\ ~clast.gs
    /\ clast.err = "ctx.Err()"
    /\ clast.held # {}

\* Manager.Close has returned the error of CloseAll
C12_WitnessCloseError ==
    /\ clast.op = "Close"
    /\ clast.closeFails
    /\ clast.stopErr = "nil"

\* The text the tables hold for key in lang, or none
Stored14(lang, key) ==
    IF lang \in DOMAIN translations /\ key \in DOMAIN translations[lang]
    THEN {translations[lang][key]} ELSE {}

\* What C14 says TranslateWithLang(lang, key) returns
Expected14(lang, key) ==
    IF Stored14(lang, key) # {} THEN Stored14(lang, key)
    ELSE IF lang # "en" /\ Stored14("en", key) # {} THEN Stored14("en", key)
    ELSE {key}

C14_Lookup ==
    /\ tlast.op = "TranslateWithLang"
       => tlast.text \in Expected14(tlast.lang, tlast.key)
    /\ tlast.op = "Translate"
       => tlast.text \in Expected14(currentLang, tlast.key)
    /\ tlast.op \in {"SetLanguage", "GetLanguage"} => tlast.lang = currentLang

C14_OnlySetLanguageSets ==
    currentLang' # currentLang
        => tlast'.op = "SetLanguage" /\ tlast'.lang = currentLang'

\* C14: TranslateWithLang(lang, key) returns the text of key in the table of
\* lang, else, for lang other than English, that in the English table, else
\* key; Translate(key) is TranslateWithLang(GetLanguage(), key); GetLanguage
\* returns what the last SetLanguage was given, or NewTranslator
C14_TranslateFallsBack == []C14_Lookup /\ [][C14_OnlySetLanguageSets]_vars

\* Translate has fallen back to the English text for the current language
C14_Witness ==
    /\ tlast.op = "Translate"
    /\ currentLang = "zh"
    /\ "zh" \in DOMAIN translations
    /\ tlast.key \notin DOMAIN translations["zh"]
    /\ tlast.text # tlast.key

\* The paths of keys of a JSON object that lead to a value that is no object
RECURSIVE LeafPaths(_)
LeafPaths(obj) ==
    UNION {IF obj[k].type = "object"
           THEN {<<k>> \o path : path \in LeafPaths(obj[k].fields)}
           ELSE {<<k>>}
           : k \in DOMAIN obj}

RECURSIVE ValueAt(_, _)
ValueAt(obj, path) ==
    IF Len(path) = 1 THEN obj[path[1]]
    ELSE ValueAt(obj[path[1]].fields, Tail(path))

\* "k1.k2. ... .kn"
RECURSIVE Dotted(_)
Dotted(path) ==
    IF Len(path) = 1 THEN path[1] ELSE path[1] \o "." \o Dotted(Tail(path))

\* A string unchanged, any other value formatted as text
TextOf(value) == IF value.type = "string" THEN value.text ELSE Sprintv(value)

\* The table of lang before the last call
TableBefore(lang) == IF lang \in DOMAIN tlast.pre THEN tlast.pre[lang] ELSE <<>>

\* C15: after a file has been loaded for a language, the table of the language
\* maps the dotted key of every path to a value that is no object to that
\* value as text, keeps the entries it had for other keys, and has no other
\* entry
C15_FlattenedIntoDottedKeys ==
    tlast.op = "LoadTranslations" /\ ~tlast.err =>
        \A lang \in DOMAIN tlast.dir :
            tlast.dir[lang].type = "object" =>
                LET obj == tlast.dir[lang].fields
                    table == translations[lang]
                    keys == {Dotted(path) : path \in LeafPaths(obj)}
                IN  /\ \A path \in LeafPaths(obj) :
                          /\ Dotted(path) \in DOMAIN table
                          /\ table[Dotted(path)] = TextOf(ValueAt(obj, path))
                    /\ \A key \in DOMAIN TableBefore(lang) \ keys :
                          /\ key \in DOMAIN table
                          /\ table[key] = TableBefore(lang)[key]
                    /\ DOMAIN table \subseteq keys \cup DOMAIN TableBefore(lang)

\* The sum of a counter over its labels
RECURSIVE Total(_, _)
Total(counter, labels) ==
    IF labels = {} THEN 0
    ELSE LET l == CHOOSE x \in labels : TRUE
         IN  counter[l] + Total(counter, labels \ {l})

\* C16: when the interceptor has returned, the handler has been invoked once,
\* one request is counted more, under the method and "success" for a nil error
\* and "error" for any other, one duration is observed more, for the method,
\* one error is recorded more if and only if the handler returned an error,
\* and the response and the error returned are those of the handler
C16_InterceptorRecordsOnce ==
    ilast.op = "Interceptor" =>
        LET pre == ilast.pre
            status == IF ilast.handlerErr = Nil THEN "success" ELSE "error"
        IN  /\ handled = pre.handled + 1
            /\ grpcRequestsTotal =
                   [pre.requests EXCEPT ![<<ilast.method, status>>] = @ + 1]
            /\ grpcRequestDuration =
                   [pre.durations EXCEPT ![ilast.method] = @ + 1]
            /\ Total(errorsTotal, DOMAIN errorsTotal)
                   = Total(pre.errors, DOMAIN errorsTotal)
                     + (IF ilast.handlerErr = Nil THEN 0 ELSE 1)
            /\ \A l \in DOMAIN errorsTotal : errorsTotal[l] >= pre.errors[l]
            /\ ilast.resp = ilast.handlerResp
            /\ ilast.err = ilast.handlerErr

\* The interceptor has returned the error of a handler, after a call that
\* succeeded
C16_Witness ==
    /\ ilast.op = "Interceptor"
    /\ ilast.handlerErr # Nil
    /\ \E method \in Methods : grpcRequestsTotal[<<method, "success">>] > 0
    /\ Total(errorsTotal, DOMAIN errorsTotal) = 1

\* When Close has returned: every resource had at most 3 attempts and at least
\* one, none after one that succeeded; Close returned nil exactly when every
\* resource was closed by an attempt, and an error for every resource whose 3
\* attempts failed
C17_CloseSafety ==
    /\ dblast.op = "Close" =>
          /\ DOMAIN dblast.attempts = {resources[k] : k \in DOMAIN resources}
          /\ \A r \in DOMAIN dblast.attempts :
                /\ dblast.attempts[r] \in 1..3
                /\ r \notin dblast.closed => dblast.attempts[r] = 3
          /\ ~dblast.err <=> dblast.closed = DOMAIN dblast.attempts
          /\ {dblast.errs[k] : k \in DOMAIN dblast.errs}
                = DOMAIN dblast.attempts \ dblast.closed
    /\ dbpc # "idle" =>
          \A r \in DOMAIN attempts :
              /\ attempts[r] <= 3
              /\ r \in closed /\ (dbpc = "return" \/ resources[dbres] # r)
                 => r \notin {errs[k] : k \in DOMAIN errs}

\* No attempt is made on a resource once an attempt has closed it
C17_StopsAtFirstSuccess ==
    \A r \in closed : r \in closed' => attempts'[r] = attempts[r]

\* A Close that has been called returns
C17_CloseTerminates == (dbpc # "idle") ~> (dbpc = "idle")

\* C17: Close makes at most 3 attempts on each resource, none after the first
\* that succeeds, returns nil exactly when every resource was closed by an
\* attempt and an error when the 3 attempts on a resource failed, and always
\* returns
C17_CloseWithRetry ==
    /\ []C17_CloseSafety
    /\ [][C17_StopsAtFirstSuccess]_vars
    /\ C17_CloseTerminates

\* Close has returned an error: the DB was closed at the third attempt, the
\* three attempts on the session failed
C17_Witness ==
    /\ dblast.op = "Close"
    /\ dblast.err
    /\ dblast.closed = {"DB"}
    /\ dblast.attempts["DB"] = 3
    /\ dblast.errs = <<"dbr session">>

\* C18: with the variable VGO_SERVER_HOST set, v.GetString("server.host") is
\* the value of the variable, and so for every key; without it, the value of
\* the file; LoadConfig returns an error when there is no file at configPath
C18_EnvironmentOverridesFile ==
    /\ cfglast.op = "GetString" =>
          IF EnvVarOf(cfglast.key) \in DOMAIN osEnv
          THEN cfglast.value = osEnv[EnvVarOf(cfglast.key)]
          ELSE osEnv = <<>> /\ cfglast.key \in DOMAIN loaded.file
               => cfglast.value = loaded.file[cfglast.key]
    /\ cfglast.op = "LoadConfig" => (cfglast.err <=> configFile = NoFile)

\* C19, as stated: InitLogger(nil) returns a logger and a nil error
C19_NilConfigGivesLogger ==
    llast.op = "InitLogger" /\ llast.given = NilConfig
        => llast.logger # NilLogger /\ llast.err = "nil"

\* C19, amended: InitLogger(nil) does what InitLogger(DefaultSentryConfig())
\* does: it returns a logger and a nil error when ./logs is there or can be
\* made, and an error and no logger when it cannot; DefaultSentryConfig has a
\* log directory, a log file name and the terminal; InitLogger returns an
\* error and no logger when neither the file nor the terminal is configured;
\* it returns either a logger or an error
C19_InitLoggerDefaults ==
    /\ DefaultSentryConfig.Directory # ""
    /\ DefaultSentryConfig.Filename # ""
    /\ DefaultSentryConfig.Stdout
    /\ llast.op = "InitLogger" =>
          /\ llast.given = NilConfig =>
                /\ llast.cfg.Directory = "./logs"
                /\ llast.cfg.Filename = "vgo.log"
                /\ llast.cfg.Stdout
                /\ llast.couldMkdir
                   => llast.logger # NilLogger /\ llast.err = "nil"
                /\ ~llast.couldMkdir
                   => llast.logger = NilLogger /\ llast.err # "nil"
          /\ (llast.cfg.Directory = "" \/ llast.cfg.Filename = "")
                /\ ~llast.cfg.Stdout
             => llast.logger = NilLogger /\ llast.err # "nil"
          /\ llast.logger = NilLogger <=> llast.err # "nil"

\* InitLogger(nil) has returned a logger that writes to the file and to the
\* terminal
C19_Witness ==
    /\ llast.op = "InitLogger"
    /\ llast.given = NilConfig
    /\ llast.logger # NilLogger
    /\ llast.logger.cores = <<"file", "stdout">>
    /\ "./logs" \in logDirs

\* InitLogger(nil) has returned an error
C19_WitnessReadOnly ==
    /\ llast.op = "InitLogger"
    /\ llast.given = NilConfig
    /\ llast.err = "failed to create log directory"

\* Of the events of a sorted set, or of a list, those inside the window at
\* the time now
SetInWindow(z, now) == {e \in z : e.s > now - window}
ListInWindow(requests, now) ==
    LET Inside(t) == t > now - window IN SelectSeq(requests, Inside)

\* After a rejected AllowN(key, n) the events of the key inside the window are
\* those of before the call
C20_RejectedRecordsNothing ==
    IsAllow(last) /\ ~last.allowed =>
        /\ InWindowStored(last.key, last.now) = InWindowBefore(last)
        /\ IF last.impl = "redis"
           THEN SetInWindow(zset[last.key], last.now)
                    = SetInWindow(last.pre, last.now)
           ELSE ListInWindow(Requests(mreq, last.key), last.now)
                    = ListInWindow(last.pre, last.now)

\* A call on a key leaves the events stored for every other key as they are
C20_OtherKeysUntouched ==
    \A k \in Keys :
        last'.op # "none" /\ last'.key # k =>
            /\ zset'[k] = zset[k]
            /\ Requests(mreq', k) = Requests(mreq, k)

\* C20: in both limiters a rejected AllowN(key, n) records none of its events,
\* the key's count inside the window is what it was before the call, and no
\* call on a key changes the events recorded for another key
C20_AllOrNothing ==
    []C20_RejectedRecordsNothing /\ [][C20_OtherKeysUntouched]_vars

\* A call asking for more than is left has been rejected, with events of its
\* key inside the window and events of another key stored
C20_Witness ==
    /\ IsAllow(last) /\ ~last.allowed
    /\ InWindowBefore(last) > 0
    /\ InWindowBefore(last) < limit
    /\ \E k \in Keys \ {last.key} : InWindowStored(k, last.now) > 0

\* GetRemaining returns the limit minus the events of the key inside the
\* window, the limit for a key without events, and nothing negative from Redis
C21_RemainingIsWhatIsLeft ==
    (last.op = "GetRemaining" /\ ~last.err) =>
        /\ last.remaining =
              IF last.impl = "redis" /\ limit < InWindowBefore(last)
              THEN 0 ELSE limit - InWindowBefore(last)
        /\ StampsOf(last) = {} => last.remaining = limit
        /\ last.impl = "redis" => last.remaining >= 0

\* The events of a key inside the window ending at t, in the limiter and in
\* the one that was never asked what is left
SameInWindow(k, t) ==
    /\ SetInWindow(zset[k], t) = SetInWindow(shadow.z[k], t)
    /\ ListInWindow(Requests(mreq, k), t)
          = ListInWindow(Requests(shadow.m, k), t)

\* With or without the GetRemaining calls made so far, every AllowN and Allow
\* has returned the same, and the events inside any window still to come are
\* the same
C21_SameWithoutGetRemaining ==
    /\ IsAllow(last) => last.allowed = shadow.allowed
    /\ \A k \in Keys, t \in clock..MaxTime : SameInWindow(k, t)

\* A GetRemaining accepts no event
C21_AcceptsNothing ==
    last'.op = "GetRemaining" => racc' = racc /\ macc' = macc

\* C21: GetRemaining(key) returns the limit minus the key's events inside the
\* window (the limit for a key without events, never less than 0 from Redis)
\* and consumes no quota: a GetRemaining put anywhere among the calls changes
\* the result of no AllowN or Allow
C21_GetRemainingConsumesNothing ==
    /\ []C21_RemainingIsWhatIsLeft
    /\ []C21_SameWithoutGetRemaining
    /\ [][C21_AcceptsNothing]_vars

\* GetRemaining has dropped an event that had left the window and counted one
\* still inside: something is left, and less than the limit
C21_Witness ==
    /\ last.op = "GetRemaining" /\ ~last.err /\ last.impl = "redis"
    /\ \E e \in last.pre : e.s <= last.now - window
    /\ zset[last.key] # last.pre
    /\ shadow.z[last.key] = last.pre
    /\ 0 < last.remaining /\ last.remaining < limit

\* The same in the memory limiter
C21_WitnessMemory ==
    /\ last.op = "GetRemaining" /\ last.impl = "memory"
    /\ \E i \in 1..Len(last.pre) : last.pre[i] <= last.now - window
    /\ mreq[last.key] # last.pre
    /\ shadow.m[last.key] = last.pre
    /\ 0 < last.remaining /\ last.remaining < limit

\* Right after Reset(key), whatever is asked next of the key: GetRemaining
\* returns the limit and AllowN(key, n) is accepted for every 1 <= n <= limit;
\* Reset has returned no error, also for a key that had no events
C22_KeyIsFree ==
    last.op = "Reset" =>
        /\ ~last.err
        /\ InWindowStored(last.key, clock) = 0
        /\ \A t \in clock..MaxTime :
            /\ IF last.impl = "redis"
               THEN GetRemainingScript(zset[last.key], t - window, limit).reply
                        = limit
               ELSE limit - Len(Requests(PurgeKey(mreq, last.key, t - window),
                                         last.key)) = limit
            /\ \A n \in 1..limit :
                  IF last.impl = "redis"
                  THEN AllowNScript(zset[last.key], t - window, t, limit,
                                    n).allowed = 1
                  ELSE MemoryAllowNOn(mreq, last.key, t, n).allowed

\* Reset(key) leaves what is stored for every other key as it is
C22_OtherKeysKept ==
    last'.op = "Reset" =>
        \A k \in Keys \ {last'.key} :
            /\ zset'[k] = zset[k]
            /\ rexpire'[k] = rexpire[k]
            /\ k \in DOMAIN mreq' <=> k \in DOMAIN mreq
            /\ Requests(mreq', k) = Requests(mreq, k)

C22_WitnessNoEvents ==
    /\ last.op = "Reset" /\ ~last.err /\ StampsOf(last) = {}
    /\ \E k \in Keys \ {last.key} : InWindowStored(k, clock) > 0

\* The rate-limit interceptor has returned from a request it did not skip
Limited == rllast.op # "none" /\ ~rllast.skipped

\* What the interceptor returned is what its handler had returned
HandlerResultReturned ==
    /\ rllast.handlers = 1
    /\ rllast.handled # NoCall
    /\ rllast.resp = rllast.handled.resp
    /\ rllast.err = rllast.handled.err

\* One Allow(key) with the key of KeyFunc for a request not skipped, whose
\* answer decides; none for a request skipped
C23_AllowDecides ==
    /\ Limited =>
        /\ rllast.allows = 1
        /\ rllast.allow.op = "Allow"
        /\ rllast.allow.n = 1
        /\ rllast.allow.key = KeyFunc(rllast.config, rllast.call)
        /\ (~rllast.allow.err /\ ~rllast.allow.allowed) =>
              /\ rllast.handlers = 0
              /\ rllast.handled = NoCall
              /\ rllast.err = StatusError("ResourceExhausted")
        /\ (~rllast.allow.err /\ rllast.allow.allowed) => HandlerResultReturned
    /\ (rllast.op # "none" /\ rllast.skipped) =>
        /\ SkipFunc(rllast.config, rllast.call)
        /\ rllast.allows = 0
        /\ rllast.allow = NoCall
        /\ HandlerResultReturned

\* The steps of the interceptor on a request it skips leave the limiter as
\* it is
C23_SkippedConsumesNothing ==
    (\/ rlpc = "idle" /\ rlpc' = "handler" /\ rlloc'.skipped
     \/ rlpc = "handler" /\ rlpc' = "idle" /\ rlloc.skipped)
        => UNCHANGED <<zset, rexpire, mreq, racc, macc, shadow, ncalls>>

\* C23: in the unary and stream rate-limit interceptors a request that
\* SkipFunc does not skip makes exactly one Allow(key) call with the key of
\* KeyFunc; on (false, nil) the handler is never invoked and the call fails
\* with ResourceExhausted; on (true, nil) the handler is invoked exactly once
\* and its result returned unchanged; a request that SkipFunc skips has its
\* handler invoked and no Allow called, and consumes no quota
C23_InterceptorLimits ==
    []C23_AllowDecides /\ [][C23_SkippedConsumesNothing]_vars

\* A stream request has been refused for a key at its limit, after a request
\* that was let through
C23_Witness ==
    /\ Limited /\ rllast.op = "stream"
    /\ ~rllast.allow.err /\ ~rllast.allow.allowed
    /\ limit >= 1
    /\ rllast.err = StatusError("ResourceExhausted")

\* A unary request let through, its handler's error returned
C23_WitnessAllowed ==
    /\ Limited /\ rllast.op = "unary"
    /\ ~rllast.allow.err /\ rllast.allow.allowed
    /\ rllast.err = OtherError

\* A request skipped while its key was at its limit
C23_WitnessSkipped ==
    /\ rllast.op # "none" /\ rllast.skipped
    /\ limit >= 1
    /\ InWindowStored(KeyFunc(rllast.config, rllast.call), clock) = limit

\* C24: the rate-limit interceptors fail open: when Allow returns an error the
\* handler is invoked exactly once and its result is returned, not the error
\* of the limiter
C24_FailOpen ==
    (Limited /\ rllast.allow.err) =>
        /\ HandlerResultReturned
        /\ rllast.err \in Errors

\* The limiter has failed and the handler's response has been returned
C24_Witness ==
    /\ Limited /\ rllast.allow.err /\ ~rllast.allow.allowed
    /\ rllast.op = "unary" /\ rllast.err = Nil /\ rllast.resp \in Responses

\* The same for a stream, whose handler has failed
C24_WitnessStream ==
    /\ Limited /\ rllast.allow.err
    /\ rllast.op = "stream" /\ rllast.err = StatusError("NotFound")

\* Where an interceptor stands in the order recovery, logging, custom
RankOf(name) == CASE name = "recovery" -> 0 [] name = "logging" -> 1 [] OTHER -> 2

\* The place of an option in the list given to NewServer
PlaceOf(name) == CHOOSE i \in DOMAIN interceptors.options :
                    interceptors.options[i] = name

\* The chain holds the interceptors of the options, each once: recovery, then
\* logging, then the custom ones in the order of their options
ChainInOrder ==
    LET chain == interceptors.chain
    IN  /\ {chain[i] : i \in DOMAIN chain}
              = {interceptors.options[i] : i \in DOMAIN interceptors.options}
        /\ Len(chain) = Len(interceptors.options)
        /\ \A i, j \in DOMAIN chain : i < j =>
              /\ RankOf(chain[i]) <= RankOf(chain[j])
              /\ RankOf(chain[i]) = RankOf(chain[j]) =>
                    PlaceOf(chain[i]) < PlaceOf(chain[j])

\* A call in which something has panicked has returned the Internal error,
\* and no panic leaves the chain
PanicCaught ==
    /\ (chlast.op # "none" /\ chlast.raised # {}) =>
          ~chlast.panicked /\ chlast.result = InternalError
    /\ chcall # NoCall => ~(chcall.mode = "panic" /\ chcall.at = 0)

\* C25, as claimed: the server interceptors are chained recovery, logging,
\* then the custom ones in the order of their options, so that a panic of the
\* handler, of the logging interceptor or of a custom interceptor is caught,
\* the call returns the Internal error and the panic does not leave the chain
C25_EveryPanicCaught == ChainInOrder /\ PanicCaught

\* C25, amended: the interceptors the options name are chained recovery,
\* logging, then the custom ones in the order of their options; when the
\* options hold WithRecoveryInterceptor the recovery interceptor is outermost,
\* and a panic of the handler, of the logging interceptor or of a custom
\* interceptor is caught and the call returns the Internal error; when they
\* do not, the panic leaves the chain
C25_PanicCaughtWithRecovery ==
    /\ ChainInOrder
    /\ interceptors.chain # <<>> /\ interceptors.chain[1] = "recovery"
        <=> \E i \in DOMAIN interceptors.options :
                interceptors.options[i] = "recovery"
    /\ IF interceptors.chain # <<>> /\ interceptors.chain[1] = "recovery"
       THEN PanicCaught
       ELSE (chlast.op # "none" /\ chlast.raised # {}) => chlast.panicked

\* The logging interceptor has panicked on a stream after the handler had
\* returned, under a recovery interceptor given as the last of four options
C25_Witness ==
    /\ chlast.op = "stream" /\ chlast.raised = {"logging"}
    /\ ~chlast.panicked /\ chlast.result = InternalError
    /\ Len(interceptors.options) = 4
    /\ interceptors.options[4] = "recovery"
    /\ interceptors.chain[1] = "recovery"

\* A panic of the handler has left a chain without recovery interceptor
C25_WitnessNoRecovery ==
    /\ chlast.op = "unary" /\ chlast.raised = {"handler"}
    /\ chlast.panicked
    /\ interceptors.chain = <<"logging", "custom2", "custom1">>

\* The table of a language, none being an empty one
TableOf(tr, lang) == IF lang \in DOMAIN tr THEN tr[lang] ELSE <<>>

\* The file of a language can be read and parsed
Loadable(file) == file.type = "object"

\* C26: LoadTranslations(dir) returns an error exactly when the English file
\* cannot be read or parsed, and then no table has been modified; a missing
\* or unparsable file of another supported language is passed over, the
\* other languages are still loaded, and nil is returned
C26_OnlyEnglishIsRequired ==
    tlast.op = "LoadTranslations" =>
        /\ tlast.err <=> ~Loadable(tlast.dir[LanguageEnglish])
        /\ tlast.err => translations = tlast.pre
        /\ ~tlast.err =>
              \A i \in DOMAIN SupportedLangs :
                LET lang == SupportedLangs[i]
                IN  IF Loadable(tlast.dir[lang])
                    THEN /\ lang \in DOMAIN translations
                         /\ translations[lang] \in
                              flattenTranslations("", tlast.dir[lang].fields,
                                                  TableOf(tlast.pre, lang))
                    ELSE /\ lang \in DOMAIN translations
                                <=> lang \in DOMAIN tlast.pre
                         /\ TableOf(translations, lang)
                                = TableOf(tlast.pre, lang)

\* zh.json could not be parsed and ko.json is missing: nil, with English and
\* Japanese loaded
C26_Witness ==
    /\ tlast.op = "LoadTranslations" /\ ~tlast.err
    /\ tlast.dir[LanguageChinese] = NotJSON
    /\ tlast.dir[LanguageKorean] = NoFile
    /\ LanguageJapanese \notin DOMAIN tlast.pre
    /\ TableOf(translations, LanguageJapanese) = [k \in {"a"} |-> "j"]
    /\ TableOf(translations, LanguageEnglish) # TableOf(tlast.pre, LanguageEnglish)

\* en.json is missing while the other files are there, after an earlier load
C26_WitnessError ==
    /\ tlast.op = "LoadTranslations" /\ tlast.err
    /\ tlast.dir[LanguageEnglish] = NoFile
    /\ Loadable(tlast.dir[LanguageChinese])
    /\ Loadable(tlast.dir[LanguageJapanese])
    /\ tlast.pre # <<>>
    /\ LanguageJapanese \notin DOMAIN translations

\* C27: AddClient(name, cfg) for a name already configured replaces its
\* configuration: the GetClient(name) that follows returns a connection whose
\* target is cfg.Target, also when a connection to the target configured
\* before had been created and stored for the name
C27_GetClientFollowsLatestConfig ==
    (clast.op = "GetClient" /\ ~clast.err) =>
        conns[clast.conn].target = configs[clast.name]

====
